---- MODULE Spec2Model ----
(***************************************************************************)
(* BaZi (four pillars) computation pipeline of bazi-fortune-telling:       *)
(*   src/src/lib/complete-bazi-calculator.ts  CompleteBaZiCalculator       *)
(*   src/src/lib/bazi-calculator.ts           calculateBazi and helpers    *)
(*   src/src/lib/astronomical-time.ts         AstronomicalTimeCalculator   *)
(*   src/src/lib/timezone-calculator.ts       getCalibratedBirthTime       *)
(*   src/src/lib/fortune-interpreter.ts       generateBasicInterpretation  *)
(*   src/unnamed/part_000                     EnhancedBirthInput (wizard)  *)
(*   src/src/app/api/health/route.ts          GET and its cache            *)
(*                                                                         *)
(* Stems and branches are written in pinyin, in table order:               *)
(*   tianGan 甲乙丙丁戊己庚辛壬癸 = jia yi bing ding wu ji geng xin ren gui  *)
(*   diZhi   子丑寅卯辰巳午未申酉戌亥 =                                      *)
(*           zi chou yin mao chen si wuzhi wei shen you xu hai             *)
(* JavaScript's undefined is the string "undefined".                       *)
(* Fractional numbers (degrees, minutes) are fixed point, Scale units per  *)
(* unit; Date values are minutes since 1970-01-01T00:00Z (the millisecond  *)
(* factor 60000 cancels in every quotient the code takes).                 *)
(***************************************************************************)
EXTENDS Integers, Sequences, FiniteSets, TLC

VARIABLES
    runtimeZone,  \* local time zone of the JavaScript runtime (environment)
    op,           \* the operation invoked last
    args,         \* its arguments
    ret,          \* what it returned, or the error it threw
    tables,       \* the lookup tables all invocations share
    calls,        \* the frame of each invocation in flight
    wizard,       \* the useState values of the EnhancedBirthInput component
    submitted,    \* the argument of the last call of onSubmit, if any
    cachedHealth, \* route.ts: the cached health check result
    lastCheckTime, \* route.ts: when the cached check started
    dateNow,      \* Date.now() of the server, milliseconds since it started
    requests      \* the GET /api/health requests in flight

wizardVars == <<wizard, submitted>>
healthVars == <<cachedHealth, lastCheckTime, dateNow, requests>>
vars == <<runtimeZone, op, args, ret, tables, calls, wizardVars, healthVars>>

----------------------------------------------------------------------------
(* Bounds of the model *)

\* calculateYearPillar is exercised on RefYear - YearSpan .. RefYear + YearSpan
YearSpan == 12
\* calculateDayPillar is exercised on EpochYear - DaySpan .. EpochYear + DaySpan
DaySpan == 2

----------------------------------------------------------------------------
(* JavaScript arithmetic *)

Undefined == "undefined"

\* a % b of JavaScript for integers, b > 0: the sign follows the dividend
JsRem(a, b) == IF a >= 0 THEN a % b ELSE -((-a) % b)

\* arr[i] of JavaScript on a 0-based array: undefined outside 0..length-1
JsIndex(arr, i) == IF i \in 0..(Len(arr) - 1) THEN arr[i + 1] ELSE Undefined

\* arr.indexOf(x)
IndexOf(arr, x) ==
    IF \E i \in 1..Len(arr) : arr[i] = x
    THEN (CHOOSE i \in 1..Len(arr) : arr[i] = x /\ \A j \in 1..(i - 1) : arr[j] # x) - 1
    ELSE -1

----------------------------------------------------------------------------
(* Lookup tables of CompleteBaZiCalculator *)

tianGan == <<"jia", "yi", "bing", "ding", "wu", "ji", "geng", "xin", "ren", "gui">>
diZhi == <<"zi", "chou", "yin", "mao", "chen", "si", "wuzhi", "wei", "shen", "you", "xu", "hai">>

Stems == {tianGan[i] : i \in 1..Len(tianGan)}
Branches == {diZhi[i] : i \in 1..Len(diZhi)}

\* obj[key] of a JavaScript object literal: undefined for a missing key
Lookup(obj, key) == IF key \in DOMAIN obj THEN obj[key] ELSE Undefined

yearGanToMonthGan ==
    [s \in Stems |->
        CASE s \in {"jia", "ji"} -> 2
          [] s \in {"yi", "geng"} -> 4
          [] s \in {"bing", "xin"} -> 6
          [] s \in {"ding", "ren"} -> 8
          [] s \in {"wu", "gui"} -> 0]

dayGanToHourGan ==
    [s \in Stems |->
        CASE s \in {"jia", "ji"} -> 0
          [] s \in {"yi", "geng"} -> 2
          [] s \in {"bing", "xin"} -> 4
          [] s \in {"ding", "ren"} -> 6
          [] s \in {"wu", "gui"} -> 8]

timeToHour == <<
    [name |-> "zi shi", start |-> 23, end |-> 1, zhi |-> "zi"],
    [name |-> "chou shi", start |-> 1, end |-> 3, zhi |-> "chou"],
    [name |-> "yin shi", start |-> 3, end |-> 5, zhi |-> "yin"],
    [name |-> "mao shi", start |-> 5, end |-> 7, zhi |-> "mao"],
    [name |-> "chen shi", start |-> 7, end |-> 9, zhi |-> "chen"],
    [name |-> "si shi", start |-> 9, end |-> 11, zhi |-> "si"],
    [name |-> "wu shi", start |-> 11, end |-> 13, zhi |-> "wuzhi"],
    [name |-> "wei shi", start |-> 13, end |-> 15, zhi |-> "wei"],
    [name |-> "shen shi", start |-> 15, end |-> 17, zhi |-> "shen"],
    [name |-> "you shi", start |-> 17, end |-> 19, zhi |-> "you"],
    [name |-> "xu shi", start |-> 19, end |-> 21, zhi |-> "xu"],
    [name |-> "hai shi", start |-> 21, end |-> 23, zhi |-> "hai"] >>

----------------------------------------------------------------------------
(* CompleteBaZiCalculator.calculateYearPillar *)

\* the reference year: 4 CE is jia-zi
RefYear == 4

\* the bug of forgetting the branch for negative remainders
CalculateYearPillarNoNormalize(year, month, day) ==
    LET ganZhiYear == IF month = 1 \/ (month = 2 /\ day < 4) THEN year - 1 ELSE year
        offset == ganZhiYear - RefYear
        ganIndex == JsRem(offset, 10)
        zhiIndex == JsRem(offset, 12)
    IN  [stem |-> JsIndex(tianGan, ganIndex),
         branch |-> JsIndex(diZhi, zhiIndex),
         ganZhiYear |-> ganZhiYear,
         stemIndex |-> ganIndex,
         branchIndex |-> zhiIndex]

\* the bug of cutting the year over at the civil new year only
CalculateYearPillarNoCutover(year, month, day) ==
    LET ganZhiYear == year
        offset == ganZhiYear - RefYear
        ganIndex == JsRem(offset, 10)
        zhiIndex == JsRem(offset, 12)
        finalGan == IF ganIndex < 0 THEN ganIndex + 10 ELSE ganIndex
        finalZhi == IF zhiIndex < 0 THEN zhiIndex + 12 ELSE zhiIndex
    IN  [stem |-> JsIndex(tianGan, finalGan),
         branch |-> JsIndex(diZhi, finalZhi),
         ganZhiYear |-> ganZhiYear,
         stemIndex |-> finalGan,
         branchIndex |-> finalZhi]

CalculateYearPillar(year, month, day) ==
    LET ganZhiYear == IF month = 1 \/ (month = 2 /\ day < 4) THEN year - 1 ELSE year
        offset == ganZhiYear - RefYear
        ganIndex == JsRem(offset, 10)
        zhiIndex == JsRem(offset, 12)
        finalGan == IF ganIndex < 0 THEN ganIndex + 10 ELSE ganIndex
        finalZhi == IF zhiIndex < 0 THEN zhiIndex + 12 ELSE zhiIndex
    IN  [stem |-> JsIndex(tianGan, finalGan),
         branch |-> JsIndex(diZhi, finalZhi),
         ganZhiYear |-> ganZhiYear,
         stemIndex |-> finalGan,
         branchIndex |-> finalZhi]

----------------------------------------------------------------------------
(* CompleteBaZiCalculator.calculateMonthPillar *)

\* monthMapping[month].index for month 3..12
MonthMappingIndex(month) == IF month = 12 THEN 0 ELSE month

\* the bug of counting the month stem from chou instead of yin
CalculateMonthPillarOffByOne(year, month, day, yearStem) ==
    LET monthZhiIndex ==
            IF month = 1 THEN 1
            ELSE IF month = 2 THEN (IF day < 4 THEN 1 ELSE 2)
            ELSE MonthMappingIndex(month)
        monthGanIndex == JsRem(yearGanToMonthGan[yearStem] + monthZhiIndex - 1, 10)
    IN  [stem |-> JsIndex(tianGan, monthGanIndex),
         branch |-> JsIndex(diZhi, monthZhiIndex),
         monthZhiIndex |-> monthZhiIndex,
         monthGanIndex |-> monthGanIndex]

CalculateMonthPillar(year, month, day, yearStem) ==
    LET monthZhiIndex ==
            IF month = 1 THEN 1
            ELSE IF month = 2 THEN (IF day < 4 THEN 1 ELSE 2)
            ELSE MonthMappingIndex(month)
        monthZhi == JsIndex(diZhi, monthZhiIndex)
        monthGanBase == yearGanToMonthGan[yearStem]
        monthGanIndex == JsRem(monthGanBase + monthZhiIndex - 2, 10)
    IN  [stem |-> JsIndex(tianGan, monthGanIndex),
         branch |-> monthZhi,
         monthZhiIndex |-> monthZhiIndex,
         monthGanIndex |-> monthGanIndex]

----------------------------------------------------------------------------
(* JavaScript Date: new Date(year, monthIndex, day) is LOCAL midnight *)

LocalZones == {"UTC", "DST"}

\* days from 1970-01-01 to the proleptic Gregorian date (ECMAScript MakeDay);
\* a day outside the month carries over, as in the Date constructor
DaysFromCivil(year, month, day) ==
    LET y == IF month <= 2 THEN year - 1 ELSE year
        era == y \div 400
        yoe == y - era * 400
        mp == (month + 9) % 12
        doy == (153 * mp + 2) \div 5 + day - 1
        doe == yoe * 365 + yoe \div 4 - yoe \div 100 + doy
    IN  era * 146097 + doe - 719468

\* minutes the local clock is ahead of UTC at local midnight of the date:
\* zone "UTC" never shifts; zone "DST" keeps daylight saving time from
\* April 1 to September 30
LocalOffset(zone, year, month, day) ==
    IF zone = "DST"
       /\ DaysFromCivil(year, month, day) >= DaysFromCivil(year, 4, 1)
       /\ DaysFromCivil(year, month, day) < DaysFromCivil(year, 10, 1)
    THEN 60
    ELSE 0

\* new Date(year, month - 1, day).getTime(), in minutes
DateLocal(zone, year, month, day) ==
    DaysFromCivil(year, month, day) * 1440 - LocalOffset(zone, year, month, day)

IsLeap(year) == (year % 4 = 0 /\ year % 100 # 0) \/ year % 400 = 0

DaysInMonth(year, month) ==
    CASE month \in {1, 3, 5, 7, 8, 10, 12} -> 31
      [] month \in {4, 6, 9, 11} -> 30
      [] OTHER -> IF IsLeap(year) THEN 29 ELSE 28

----------------------------------------------------------------------------
(* CompleteBaZiCalculator.calculateDayPillar *)

\* the year of baseDate = new Date(1900, 0, 1)
EpochYear == 1900

\* the bug of adding the stem of the epoch without the calibration offset
CalculateDayPillarNoOffset(zone, year, month, day) ==
    LET baseDate == DateLocal(zone, EpochYear, 1, 1)
        targetDate == DateLocal(zone, year, month, day)
        daysDiff == (targetDate - baseDate) \div 1440
        correctedDays == daysDiff
        ganIndex == JsRem(6 + correctedDays, 10)
        zhiIndex == JsRem(0 + correctedDays, 12)
        finalGan == IF ganIndex < 0 THEN ganIndex + 10 ELSE ganIndex
        finalZhi == IF zhiIndex < 0 THEN zhiIndex + 12 ELSE zhiIndex
    IN  [stem |-> JsIndex(tianGan, finalGan),
         branch |-> JsIndex(diZhi, finalZhi),
         daysDiff |-> correctedDays,
         stemIndex |-> finalGan,
         branchIndex |-> finalZhi]

\* zone: the time zone of the runtime, which decides what local midnight is
CalculateDayPillar(zone, year, month, day) ==
    LET baseDate == DateLocal(zone, EpochYear, 1, 1)
        targetDate == DateLocal(zone, year, month, day)
        \* Math.floor((targetDate - baseDate) / (1000 * 60 * 60 * 24))
        daysDiff == (targetDate - baseDate) \div 1440
        correctedDays == daysDiff - 12
        baseGan == 6
        baseZhi == 0
        ganIndex == JsRem(baseGan + correctedDays, 10)
        zhiIndex == JsRem(baseZhi + correctedDays, 12)
        finalGan == IF ganIndex < 0 THEN ganIndex + 10 ELSE ganIndex
        finalZhi == IF zhiIndex < 0 THEN zhiIndex + 12 ELSE zhiIndex
    IN  [stem |-> JsIndex(tianGan, finalGan),
         branch |-> JsIndex(diZhi, finalZhi),
         daysDiff |-> correctedDays,
         stemIndex |-> finalGan,
         branchIndex |-> finalZhi]

----------------------------------------------------------------------------
(* CompleteBaZiCalculator.calculateHourPillar *)

NoSlot == [name |-> "none", start |-> 0, end |-> 0, zhi |-> Undefined]

\* the slot the for loop stops at, NoSlot (null) when no slot matches
FirstSlot(hour) ==
    LET matching == {i \in 1..Len(timeToHour) :
                        hour >= timeToHour[i].start /\ hour < timeToHour[i].end}
    IN  IF matching = {} THEN NoSlot
        ELSE timeToHour[CHOOSE i \in matching : \A j \in matching : i <= j]

\* the bug of leaving the midnight slot to the for loop, which cannot match
\* start 23, end 1
CalculateHourPillarNoWrap(dayStem, hour, minute) ==
    LET hourInfo == FirstSlot(hour)
    IN  IF hourInfo = NoSlot
        THEN [threw |-> TRUE, message |-> "wu fa que ding shi chen"]
        ELSE LET hourZhiIndex == IndexOf(diZhi, hourInfo.zhi)
                 hourGanIndex == JsRem(dayGanToHourGan[dayStem] + hourZhiIndex, 10)
             IN  [threw |-> FALSE,
                  stem |-> JsIndex(tianGan, hourGanIndex),
                  branch |-> hourInfo.zhi,
                  hourName |-> hourInfo.name]

\* the bug of starting every day's hours at jia
CalculateHourPillarNoBase(dayStem, hour, minute) ==
    LET hourInfo == IF hour >= 23 \/ hour < 1 THEN timeToHour[1] ELSE FirstSlot(hour)
    IN  IF hourInfo = NoSlot
        THEN [threw |-> TRUE, message |-> "wu fa que ding shi chen"]
        ELSE LET hourZhiIndex == IndexOf(diZhi, hourInfo.zhi)
             IN  [threw |-> FALSE,
                  stem |-> JsIndex(tianGan, JsRem(hourZhiIndex, 10)),
                  branch |-> hourInfo.zhi,
                  hourName |-> hourInfo.name]

CalculateHourPillar(dayStem, hour, minute) ==
    LET hourInfo == IF hour >= 23 \/ hour < 1 THEN timeToHour[1] ELSE FirstSlot(hour)
    IN  IF hourInfo = NoSlot
        THEN [threw |-> TRUE, message |-> "wu fa que ding shi chen"]
        ELSE LET hourGanBase == dayGanToHourGan[dayStem]
                 hourZhiIndex == IndexOf(diZhi, hourInfo.zhi)
                 hourGanIndex == JsRem(hourGanBase + hourZhiIndex, 10)
             IN  [threw |-> FALSE,
                  stem |-> JsIndex(tianGan, hourGanIndex),
                  branch |-> hourInfo.zhi,
                  hourName |-> hourInfo.name]

----------------------------------------------------------------------------
(* bazi-calculator.ts: calculateHourPillar *)

HEAVENLY_STEMS == tianGan
EARTHLY_BRANCHES == diZhi

BaziCalculateHourPillar(dayStem, hour) ==
    LET dayStemIndex == IndexOf(HEAVENLY_STEMS, dayStem)
        \* Math.floor((hour + 1) / 2) % 12
        hourBranchIndex == JsRem((hour + 1) \div 2, 12)
        hourStemStart == JsRem(dayStemIndex * 2 + 2, 10)
        hourStemIndex == JsRem(hourStemStart + (hour + 1) \div 2, 10)
    IN  [stem |-> JsIndex(HEAVENLY_STEMS, hourStemIndex),
         branch |-> JsIndex(EARTHLY_BRANCHES, hourBranchIndex)]

----------------------------------------------------------------------------
(* AstronomicalTimeCalculator.calculateTrueSolarTime *)

\* fixed point: degrees and minutes carry four decimals, as the gazetteer does
Scale == 100 * 100

\* equationOfTime(jd) is a sum of sines of the Julian date, of magnitude below
\* 17 minutes; its value is an input here, any whole minute with |eot| <= MaxEot
MaxEot == 17
EquationOfTime == {k * Scale : k \in (0 - MaxEot)..MaxEot}

\* location: [name, longitude, timezone], longitude in 1/Scale degrees;
\* the minute fields of the result are in 1/Scale minutes
CalculateTrueSolarTime(year, month, day, hour, minute, location, equationOfTime) ==
    LET standardLongitude == (location.timezone - 8) * 15 * Scale
        longitudeCorrection == (location.longitude - standardLongitude) * 4
        totalCorrection == equationOfTime + longitudeCorrection
        totalMinutes == (hour * 60 + minute) * Scale + totalCorrection
        \* Math.floor(totalMinutes / 60)
        trueHour == totalMinutes \div (60 * Scale)
        \* Math.floor(totalMinutes % 60)
        trueMinute == JsRem(totalMinutes, 60 * Scale) \div Scale
        \* Math.floor((totalMinutes % 1) * 60)
        trueSecond == (JsRem(totalMinutes, Scale) * 60) \div Scale
        trueDay == IF trueHour >= 24 THEN day + 1
                   ELSE IF trueHour < 0 THEN day - 1 ELSE day
        finalHour == IF trueHour >= 24 THEN trueHour - 24
                     ELSE IF trueHour < 0 THEN trueHour + 24 ELSE trueHour
    IN  [year |-> year, month |-> month, day |-> trueDay,
         hour |-> finalHour, minute |-> trueMinute, second |-> trueSecond,
         isLeapYear |-> IsLeap(year),
         \* new Date(year, month - 1, day).getDay(); 1970-01-01 is a Thursday
         dayOfWeek |-> (DaysFromCivil(year, month, day) + 4) % 7,
         equationOfTime |-> equationOfTime,
         longitudeCorrection |-> longitudeCorrection,
         totalCorrection |-> totalCorrection]

----------------------------------------------------------------------------
(* CompleteBaZiCalculator.parseTime, analyzeFiveElements, calculateTenGods *)

Digits == <<"0", "1", "2", "3", "4", "5", "6", "7", "8", "9">>

\* Number(s) for a string of decimal digits with an optional leading "-"
RECURSIVE DigitsToNumber(_)
DigitsToNumber(s) ==
    IF s = <<>> THEN 0
    ELSE DigitsToNumber(SubSeq(s, 1, Len(s) - 1)) * 10 + IndexOf(Digits, s[Len(s)])

ToNumber(s) ==
    IF s # <<>> /\ s[1] = "-" THEN 0 - DigitsToNumber(Tail(s)) ELSE DigitsToNumber(s)

\* timeStr.split(':'): the pieces before and after the first colon
SplitColon(timeStr) ==
    LET c == IndexOf(timeStr, ":") + 1
    IN  <<SubSeq(timeStr, 1, c - 1), SubSeq(timeStr, c + 1, Len(timeStr))>>

ParseTime(timeStr) ==
    LET parts == SplitColon(timeStr)
    IN  [hour |-> ToNumber(parts[1]), minute |-> ToNumber(parts[2])]

wuXing ==
    [c \in Stems \cup Branches |->
        CASE c \in {"jia", "yi", "yin", "mao"} -> "wood"
          [] c \in {"bing", "ding", "si", "wuzhi"} -> "fire"
          [] c \in {"wu", "ji", "chou", "chen", "wei", "xu"} -> "earth"
          [] c \in {"geng", "xin", "shen", "you"} -> "metal"
          [] c \in {"ren", "gui", "zi", "hai"} -> "water"]

Elements == {"wood", "fire", "earth", "metal", "water"}

\* chars: the eight characters of the chart (an undefined stem spells
\* "undefined", none of whose letters is in wuXing)
AnalyzeFiveElements(chars) ==
    [e \in Elements |->
        Cardinality({i \in 1..Len(chars) : Lookup(wuXing, chars[i]) = e})]

TenGodNames == <<"bijian", "jiecai", "shishen", "shangguan", "piancai",
                 "zhengcai", "qisha", "zhengguan", "pianyin", "zhengyin">>

\* a table whose rows all list the stems in the order of a yang day master,
\* wrong for the five yin day masters
relationshipsYangOnly ==
    [d \in Stems |->
        [i \in 1..10 |-> JsIndex(tianGan, (IndexOf(tianGan, d) + i - 1) % 10)]]

\* relationships[dayMaster], the stems in the order of TenGodNames
relationships ==
    [d \in Stems |->
        CASE d = "jia" -> <<"jia", "yi", "bing", "ding", "wu", "ji", "geng", "xin", "ren", "gui">>
          [] d = "yi" -> <<"yi", "jia", "ding", "bing", "ji", "wu", "xin", "geng", "gui", "ren">>
          [] d = "bing" -> <<"bing", "ding", "wu", "ji", "geng", "xin", "ren", "gui", "jia", "yi">>
          [] d = "ding" -> <<"ding", "bing", "ji", "wu", "xin", "geng", "gui", "ren", "yi", "jia">>
          [] d = "wu" -> <<"wu", "ji", "geng", "xin", "ren", "gui", "jia", "yi", "bing", "ding">>
          [] d = "ji" -> <<"ji", "wu", "xin", "geng", "gui", "ren", "yi", "jia", "ding", "bing">>
          [] d = "geng" -> <<"geng", "xin", "ren", "gui", "jia", "yi", "bing", "ding", "wu", "ji">>
          [] d = "xin" -> <<"xin", "geng", "gui", "ren", "yi", "jia", "ding", "bing", "ji", "wu">>
          [] d = "ren" -> <<"ren", "gui", "jia", "yi", "bing", "ding", "wu", "ji", "geng", "xin">>
          [] d = "gui" -> <<"gui", "ren", "yi", "jia", "ding", "bing", "ji", "wu", "xin", "geng">>]

CalculateTenGods(dayMaster) ==
    [g \in {TenGodNames[i] : i \in 1..Len(TenGodNames)} |->
        IF dayMaster \in DOMAIN relationships
        THEN <<relationships[dayMaster][IndexOf(TenGodNames, g) + 1]>>
        ELSE <<>>]

----------------------------------------------------------------------------
(* CompleteBaZiCalculator.calculate *)

\* new Date(y, m - 1, d, h, min) as minutes of local wall-clock time
WallClock(year, month, day, hour, minute) ==
    DaysFromCivil(year, month, day) * 1440 + hour * 60 + minute

\* the bug of correcting the time whatever the caller asked for
CalculateAlwaysSolar(zone, year, month, day, timeStr, location, useTrueSolarTime, equationOfTime) ==
    LET parsed == ParseTime(timeStr)
        trueSolarTime == CalculateTrueSolarTime(year, month, day, parsed.hour,
                                                parsed.minute, location, equationOfTime)
        yearResult == CalculateYearPillar(trueSolarTime.year, trueSolarTime.month,
                                          trueSolarTime.day)
        monthResult == CalculateMonthPillar(trueSolarTime.year, trueSolarTime.month,
                                            trueSolarTime.day, yearResult.stem)
        dayResult == CalculateDayPillar(zone, trueSolarTime.year, trueSolarTime.month,
                                        trueSolarTime.day)
        hourResult == CalculateHourPillar(dayResult.stem, trueSolarTime.hour,
                                          trueSolarTime.minute)
    IN  IF hourResult.threw
        THEN [threw |-> TRUE, message |-> "ba zi ji suan shi bai"]
        ELSE [threw |-> FALSE,
              yearPillar |-> yearResult,
              monthPillar |-> monthResult,
              dayPillar |-> dayResult,
              hourPillar |-> hourResult,
              fiveElements |->
                  AnalyzeFiveElements(<<yearResult.stem, yearResult.branch,
                                        monthResult.stem, monthResult.branch,
                                        dayResult.stem, dayResult.branch,
                                        hourResult.stem, hourResult.branch>>),
              tenGods |-> CalculateTenGods(dayResult.stem),
              dayMaster |-> dayResult.stem,
              birthInfo |->
                  [originalDate |-> WallClock(year, month, day, parsed.hour, parsed.minute),
                   trueSolarTime |-> WallClock(trueSolarTime.year, trueSolarTime.month,
                                               trueSolarTime.day, trueSolarTime.hour,
                                               trueSolarTime.minute),
                   location |-> location,
                   useTrueSolarTime |-> useTrueSolarTime]]

Calculate(zone, year, month, day, timeStr, location, useTrueSolarTime, equationOfTime) ==
    LET parsed == ParseTime(timeStr)
        originalHour == parsed.hour
        originalMinute == parsed.minute
        trueSolarTime == CalculateTrueSolarTime(year, month, day, originalHour,
                                                originalMinute, location, equationOfTime)
        finalYear == IF useTrueSolarTime THEN trueSolarTime.year ELSE year
        finalMonth == IF useTrueSolarTime THEN trueSolarTime.month ELSE month
        finalDay == IF useTrueSolarTime THEN trueSolarTime.day ELSE day
        finalHour == IF useTrueSolarTime THEN trueSolarTime.hour ELSE originalHour
        finalMinute == IF useTrueSolarTime THEN trueSolarTime.minute ELSE originalMinute
        yearResult == CalculateYearPillar(finalYear, finalMonth, finalDay)
        monthResult == CalculateMonthPillar(finalYear, finalMonth, finalDay, yearResult.stem)
        dayResult == CalculateDayPillar(zone, finalYear, finalMonth, finalDay)
        hourResult == CalculateHourPillar(dayResult.stem, finalHour, finalMinute)
    IN  IF hourResult.threw
        THEN [threw |-> TRUE, message |-> "ba zi ji suan shi bai"]
        ELSE [threw |-> FALSE,
              yearPillar |-> yearResult,
              monthPillar |-> monthResult,
              dayPillar |-> dayResult,
              hourPillar |-> hourResult,
              fiveElements |->
                  AnalyzeFiveElements(<<yearResult.stem, yearResult.branch,
                                        monthResult.stem, monthResult.branch,
                                        dayResult.stem, dayResult.branch,
                                        hourResult.stem, hourResult.branch>>),
              tenGods |-> CalculateTenGods(dayResult.stem),
              dayMaster |-> dayResult.stem,
              birthInfo |->
                  [originalDate |-> WallClock(year, month, day, originalHour, originalMinute),
                   trueSolarTime |-> WallClock(finalYear, finalMonth, finalDay,
                                               finalHour, finalMinute),
                   location |-> location,
                   useTrueSolarTime |-> useTrueSolarTime]]

----------------------------------------------------------------------------
(* bazi-calculator.ts: tables, calculateFiveElements, calculateTenGods *)

STEM_ELEMENTS ==
    [s \in Stems |->
        CASE s \in {"jia", "yi"} -> "wood"
          [] s \in {"bing", "ding"} -> "fire"
          [] s \in {"wu", "ji"} -> "earth"
          [] s \in {"geng", "xin"} -> "metal"
          [] s \in {"ren", "gui"} -> "water"]

BRANCH_ELEMENTS ==
    [b \in Branches |->
        CASE b \in {"yin", "mao"} -> "wood"
          [] b \in {"si", "wuzhi"} -> "fire"
          [] b \in {"chou", "chen", "wei", "xu"} -> "earth"
          [] b \in {"shen", "you"} -> "metal"
          [] b \in {"zi", "hai"} -> "water"]

HIDDEN_STEMS ==
    [b \in Branches |->
        CASE b = "zi" -> <<"gui">>
          [] b = "chou" -> <<"ji", "gui", "xin">>
          [] b = "yin" -> <<"jia", "bing", "wu">>
          [] b = "mao" -> <<"yi">>
          [] b = "chen" -> <<"wu", "yi", "gui">>
          [] b = "si" -> <<"bing", "wu", "geng">>
          [] b = "wuzhi" -> <<"ding", "ji">>
          [] b = "wei" -> <<"ji", "ding", "yi">>
          [] b = "shen" -> <<"geng", "wu", "ren">>
          [] b = "you" -> <<"xin">>
          [] b = "xu" -> <<"wu", "xin", "ding">>
          [] b = "hai" -> <<"ren", "jia">>]

TenGodLabels == {TenGodNames[i] : i \in 1..Len(TenGodNames)}

\* a wrong table: its rows repeat labels, and its yi row has no peer
TEN_GODS_DuplicateLabel ==
    [d \in Stems |->
        [s \in Stems |-> IF IndexOf(tianGan, s) = (IndexOf(tianGan, d) + 1) % 10
                         THEN "jiecai" ELSE IF s = d /\ d # "yi" THEN "bijian"
                         ELSE IF s = d THEN "jiecai" ELSE "shishen"]]

\* TEN_GODS[dayMaster][stem]; each row lists the labels of jia .. gui
TEN_GODS ==
    [d \in Stems |->
        LET row ==
                CASE d = "jia" -> <<"bijian", "jiecai", "shishen", "shangguan", "piancai", "zhengcai", "qisha", "zhengguan", "pianyin", "zhengyin">>
                  [] d = "yi" -> <<"jiecai", "bijian", "shangguan", "shishen", "zhengcai", "piancai", "zhengguan", "qisha", "zhengyin", "pianyin">>
                  [] d = "bing" -> <<"pianyin", "zhengyin", "bijian", "jiecai", "shishen", "shangguan", "piancai", "zhengcai", "qisha", "zhengguan">>
                  [] d = "ding" -> <<"zhengyin", "pianyin", "jiecai", "bijian", "shangguan", "shishen", "zhengcai", "piancai", "zhengguan", "qisha">>
                  [] d = "wu" -> <<"qisha", "zhengguan", "pianyin", "zhengyin", "bijian", "jiecai", "shishen", "shangguan", "piancai", "zhengcai">>
                  [] d = "ji" -> <<"zhengguan", "qisha", "zhengyin", "pianyin", "jiecai", "bijian", "shangguan", "shishen", "zhengcai", "piancai">>
                  [] d = "geng" -> <<"piancai", "zhengcai", "qisha", "zhengguan", "pianyin", "zhengyin", "bijian", "jiecai", "shishen", "shangguan">>
                  [] d = "xin" -> <<"zhengcai", "piancai", "zhengguan", "qisha", "zhengyin", "pianyin", "jiecai", "bijian", "shangguan", "shishen">>
                  [] d = "ren" -> <<"shishen", "shangguan", "piancai", "zhengcai", "qisha", "zhengguan", "pianyin", "zhengyin", "bijian", "jiecai">>
                  [] d = "gui" -> <<"shangguan", "shishen", "zhengcai", "piancai", "zhengguan", "qisha", "zhengyin", "pianyin", "jiecai", "bijian">>
        IN  [s \in Stems |-> row[IndexOf(tianGan, s) + 1]]]

\* the number of <<pillar, hidden stem>> pairs of the chart whose element is e
HiddenCountIn(hidden, pillars, e) ==
    Cardinality({ij \in (1..Len(pillars)) \X (1..3) :
                    /\ ij[2] <= Len(hidden[pillars[ij[1]].branch])
                    /\ Lookup(STEM_ELEMENTS, hidden[pillars[ij[1]].branch][ij[2]]) = e})

HiddenCount(pillars, e) == HiddenCountIn(HIDDEN_STEMS, pillars, e)

OwnCount(pillars, e) ==
    Cardinality({i \in 1..Len(pillars) : Lookup(STEM_ELEMENTS, pillars[i].stem) = e})
    + Cardinality({i \in 1..Len(pillars) : Lookup(BRANCH_ELEMENTS, pillars[i].branch) = e})

\* the bug of counting a hidden stem like a stem
BaziCalculateFiveElementsFullHidden(pillars) ==
    IF \E i \in 1..Len(pillars) : pillars[i].branch \notin DOMAIN HIDDEN_STEMS
    THEN [threw |-> TRUE, message |-> "TypeError"]
    ELSE [threw |-> FALSE,
          elements |-> [e \in Elements |->
                            2 * OwnCount(pillars, e) + 2 * HiddenCount(pillars, e)]]

\* the bug of leaving the hidden stems out
BaziCalculateFiveElementsNoHidden(pillars) ==
    IF \E i \in 1..Len(pillars) : pillars[i].branch \notin DOMAIN HIDDEN_STEMS
    THEN [threw |-> TRUE, message |-> "TypeError"]
    ELSE [threw |-> FALSE,
          elements |-> [e \in Elements |-> 2 * OwnCount(pillars, e)]]

\* calculateFiveElements reading the hidden stems from the table `hidden`;
\* the buckets are in HALVES (2 is 1.0, 1 is 0.5).  hidden[branch] of a
\* branch outside the table is undefined, and undefined.forEach throws
CalculateFiveElementsWith(hidden, pillars) ==
    IF \E i \in 1..Len(pillars) : pillars[i].branch \notin DOMAIN hidden
    THEN [threw |-> TRUE, message |-> "TypeError"]
    ELSE [threw |-> FALSE,
          elements |-> [e \in Elements |->
                            2 * OwnCount(pillars, e) + HiddenCountIn(hidden, pillars, e)]]

BaziCalculateFiveElements(pillars) == CalculateFiveElementsWith(HIDDEN_STEMS, pillars)

PillarNames == <<"nianzhu", "yuezhu", "rizhu", "shizhu">>

\* the bug of listing the branch before the stem
BaziCalculateTenGodsBranchFirst(dayMaster, pillars) ==
    IF \/ dayMaster \notin DOMAIN TEN_GODS
       \/ \E i \in 1..Len(pillars) : pillars[i].branch \notin DOMAIN HIDDEN_STEMS
    THEN [threw |-> TRUE, message |-> "TypeError"]
    ELSE LET entry(c) == [char |-> c, god |-> Lookup(TEN_GODS[dayMaster], c)]
             group(pillar) ==
                 <<entry(pillar.branch), entry(pillar.stem)>>
                 \o [j \in 1..Len(HIDDEN_STEMS[pillar.branch]) |->
                        entry(HIDDEN_STEMS[pillar.branch][j])]
         IN  [threw |-> FALSE,
              groups |-> [n \in {PillarNames[i] : i \in 1..Len(pillars)} |->
                             group(pillars[IndexOf(PillarNames, n) + 1])]]

\* calculateTenGods; an entry `${char}(${god})` is [char, god]
BaziCalculateTenGods(dayMaster, pillars) ==
    IF \/ dayMaster \notin DOMAIN TEN_GODS
       \/ \E i \in 1..Len(pillars) : pillars[i].branch \notin DOMAIN HIDDEN_STEMS
    THEN [threw |-> TRUE, message |-> "TypeError"]
    ELSE LET dayMasterTenGods == TEN_GODS[dayMaster]
             entry(c) == [char |-> c, god |-> Lookup(dayMasterTenGods, c)]
             group(pillar) ==
                 <<entry(pillar.stem), entry(pillar.branch)>>
                 \o [j \in 1..Len(HIDDEN_STEMS[pillar.branch]) |->
                        entry(HIDDEN_STEMS[pillar.branch][j])]
         IN  [threw |-> FALSE,
              groups |-> [n \in {PillarNames[i] : i \in 1..Len(pillars)} |->
                             group(pillars[IndexOf(PillarNames, n) + 1])]]

----------------------------------------------------------------------------
(* bazi-calculator.ts: the pillar functions and calculateBazi.  A Date is  *)
(* the number of minutes its local wall clock shows since 1970-01-01 00:00 *)

\* the proleptic Gregorian date of a day number (ECMAScript YearFromTime,
\* MonthFromTime, DateFromTime), the inverse of DaysFromCivil
CivilFromDays(days) ==
    LET FromMonth(y, mp, d) ==
            [year |-> IF mp < 10 THEN y ELSE y + 1,
             month |-> IF mp < 10 THEN mp + 3 ELSE mp - 9,
             day |-> d]
        FromDayOfYear(y, doy, mp) == FromMonth(y, mp, doy - (153 * mp + 2) \div 5 + 1)
        FromYear(y, doy) == FromDayOfYear(y, doy, (5 * doy + 2) \div 153)
        FromYearOfEra(era, doe, yoe) ==
            FromYear(yoe + era * 400, doe - (365 * yoe + yoe \div 4 - yoe \div 100))
        FromDayOfEra(era, doe) ==
            FromYearOfEra(era, doe,
                          (doe - doe \div 1460 + doe \div 36524 - doe \div 146096) \div 365)
        FromEra(z, era) == FromDayOfEra(era, z - era * 146097)
    IN  FromEra(days + 719468, (days + 719468) \div 146097)

GetFullYear(date) == CivilFromDays(date \div 1440).year
GetMonth(date) == CivilFromDays(date \div 1440).month - 1
GetHours(date) == (date % 1440) \div 60

\* date.setHours(hours, minutes, 0, 0): the same local day at another time
SetHours(date, hours, minutes) == (date \div 1440) * 1440 + hours * 60 + minutes

\* date.getTime(), in minutes
GetTime(zone, date) ==
    LET civil == CivilFromDays(date \div 1440)
    IN  date - LocalOffset(zone, civil.year, civil.month, civil.day)

\* calculateYearPillar(year) of bazi-calculator.ts
BaziCalculateYearPillar(year) ==
    LET baseYear == 1984
        offset == JsRem(year - baseYear, 60)
        stemIndex == JsRem(offset, 10)
        branchIndex == JsRem(offset, 12)
    IN  [stem |-> JsIndex(HEAVENLY_STEMS, stemIndex),
         branch |-> JsIndex(EARTHLY_BRANCHES, branchIndex)]

\* calculateMonthPillar(year, month) of bazi-calculator.ts
BaziCalculateMonthPillar(year, month) ==
    LET yearPillar == BaziCalculateYearPillar(year)
        yearStemIndex == IndexOf(HEAVENLY_STEMS, yearPillar.stem)
        monthStemStart == JsRem(yearStemIndex * 2 + 2, 10)
        monthStemIndex == JsRem(monthStemStart + month - 1, 10)
        monthBranchIndex == JsRem(month + 1, 12)
    IN  [stem |-> JsIndex(HEAVENLY_STEMS, monthStemIndex),
         branch |-> JsIndex(EARTHLY_BRANCHES, monthBranchIndex)]

\* calculateDayPillar without its adjustment of 36 days
BaziCalculateDayPillarNoAdjust(zone, date) ==
    LET baseDate == DateLocal(zone, 1900, 1, 31)
        daysDiff == (GetTime(zone, date) - baseDate) \div 1440
        offset == JsRem(daysDiff, 60)
        stemIndex == JsRem(offset, 10)
        branchIndex == JsRem(offset, 12)
    IN  [stem |-> JsIndex(HEAVENLY_STEMS, stemIndex),
         branch |-> JsIndex(EARTHLY_BRANCHES, branchIndex)]

\* calculateDayPillar(date) of bazi-calculator.ts
BaziCalculateDayPillar(zone, date) ==
    LET baseDate == DateLocal(zone, 1900, 1, 31)
        daysDiff == (GetTime(zone, date) - baseDate) \div 1440
        offset == JsRem(daysDiff + 36, 60)
        stemIndex == JsRem(offset, 10)
        branchIndex == JsRem(offset, 12)
    IN  [stem |-> JsIndex(HEAVENLY_STEMS, stemIndex),
         branch |-> JsIndex(EARTHLY_BRANCHES, branchIndex)]

\* the four pillars calculateBazi derives from the working date: its year,
\* month and day, and its hour
PillarsOfInstant(zone, date) ==
    LET dayPillar == BaziCalculateDayPillar(zone, date)
    IN  << BaziCalculateYearPillar(GetFullYear(date)),
           BaziCalculateMonthPillar(GetFullYear(date), GetMonth(date) + 1),
           dayPillar,
           BaziCalculateHourPillar(dayPillar.stem, GetHours(date)) >>

\* the first half of calculateBazi: the working date is the calculation date
\* with its time of day set from birthTime; birthInfo.calibratedDate is optional
BaziPillars(zone, birthInfo) ==
    LET calculationDate == IF "calibratedDate" \in DOMAIN birthInfo
                           THEN birthInfo.calibratedDate ELSE birthInfo.birthDate
        parts == SplitColon(birthInfo.birthTime)
        hours == ToNumber(parts[1])
        minutes == ToNumber(parts[2])
        workingDate == SetHours(calculationDate, hours, minutes)
    IN  PillarsOfInstant(zone, workingDate)

\* the second half of calculateBazi: the tally, the relationships, the result
BaziOfPillars(pillars) ==
    LET fiveElements == BaziCalculateFiveElements(pillars)
        dayMaster == pillars[3].stem
        tenGods == BaziCalculateTenGods(dayMaster, pillars)
    IN  IF fiveElements.threw \/ tenGods.threw
        THEN [threw |-> TRUE, message |-> "TypeError"]
        ELSE [threw |-> FALSE,
              yearPillar |-> pillars[1],
              monthPillar |-> pillars[2],
              dayPillar |-> pillars[3],
              hourPillar |-> pillars[4],
              fiveElements |-> fiveElements.elements,
              tenGods |-> tenGods.groups,
              dayMaster |-> dayMaster]

\* calculateBazi(birthInfo)
CalculateBazi(zone, birthInfo) == BaziOfPillars(BaziPillars(zone, birthInfo))

\* getCalibratedBirthTime: calibratedTime = birthDate + totalOffset, where
\* totalOffset (minutes) is the zone offset plus the solar adjustment
CalibratedTime(birthDate, totalOffset) == birthDate + totalOffset

\* calculateBaziWithTimezone
CalculateBaziWithTimezone(zone, birthDate, birthTime, totalOffset) ==
    CalculateBazi(zone, [birthDate |-> birthDate, birthTime |-> birthTime,
                         calibratedDate |-> CalibratedTime(birthDate, totalOffset)])

----------------------------------------------------------------------------
(* timezone-calculator.ts: getCalibratedBirthTime.  The wizard               *)
(* EnhancedBirthInput with the TimezoneSelector it mounts at its second step *)

\* two of the LocationData entries of CHINA_CITIES, longitude in 1/Scale degrees
CHINA_CITIES ==
    { [name |-> "Beijing", longitude |-> 1164074, timezone |-> "Asia/Shanghai",
       utcOffset |-> 480],
      [name |-> "Chengdu", longitude |-> 1040668, timezone |-> "Asia/Shanghai",
       utcOffset |-> 480] }

\* DateTime.fromJSDate(date).ordinal, the day of the year
Ordinal(date) == date \div 1440 - DaysFromCivil(GetFullYear(date), 1, 1) + 1

\* calculateEquationOfTime, in 1/Scale minutes:
\* 9.87 sin 2B - 7.53 cos B - 1.5 sin B with B = 2 pi (ordinal - 81) / 365,
\* tabulated for the days of the year the wizard's dates fall on
EquationOfTimeByOrdinal == (1 :> -37052) @@ (152 :> 23553)

CalculateEquationOfTime(date) == EquationOfTimeByOrdinal[Ordinal(date)]

\* calculateLongitudeOffset, in 1/Scale minutes
CalculateLongitudeOffset(longitude) == (longitude - 120 * Scale) * 4

CalculateSolarTimeAdjustment(date, longitude) ==
    CalculateEquationOfTime(date) + CalculateLongitudeOffset(longitude)

\* DateTime.fromJSDate(date).setZone(timezone).offset, in minutes:
\* Asia/Shanghai is UTC+8 but for the summers of 1986..1991, which hold none
\* of the wizard's dates
ZoneOffset(timezone, date) == IF timezone = "Asia/Shanghai" THEN 480 ELSE 0

\* getCalibratedBirthTime(birthDate, location); the offsets are kept in
\* minutes and 1/Scale minutes, the calibrated Date to the whole minute
GetCalibratedBirthTime(birthDate, location) ==
    LET timezoneOffset == ZoneOffset(location.timezone, birthDate)
        solarTimeOffset == CalculateSolarTimeAdjustment(birthDate, location.longitude)
        totalOffset == timezoneOffset * Scale + solarTimeOffset
    IN  [originalTime |-> birthDate,
         timezoneOffset |-> timezoneOffset,
         solarTimeOffset |-> solarTimeOffset,
         calibratedTime |-> CalibratedTime(birthDate, totalOffset \div Scale),
         location |-> location]

\* null, for a LocationData and for a TimeCalibration
NullLocation == [name |-> "null", longitude |-> 0, timezone |-> "null", utcOffset |-> 0]
NullCalibration ==
    [originalTime |-> 0, timezoneOffset |-> 0, solarTimeOffset |-> 0,
     calibratedTime |-> 0, location |-> NullLocation]

\* the useState values of EnhancedBirthInput after mounting; the empty string
\* of birthDate and birthTime is the empty sequence, errors is the set of
\* keys that carry a message
InitialWizard ==
    [birthDate |-> <<>>, birthTime |-> <<>>, gender |-> "", calendarType |-> "",
     location |-> NullLocation, timeCalibration |-> NullCalibration,
     errors |-> {}, step |-> 1]

\* validateStep(currentStep): the keys of newErrors
ValidateStep(w, currentStep) ==
    IF currentStep = 1
    THEN {k \in {"birthDate", "birthTime", "gender", "calendarType"} :
            \/ k = "birthDate" /\ w.birthDate = <<>>
            \/ k = "birthTime" /\ w.birthTime = <<>>
            \/ k = "gender" /\ w.gender = ""
            \/ k = "calendarType" /\ w.calendarType = ""}
    ELSE IF currentStep = 2
    THEN {k \in {"location"} : w.location = NullLocation}
    ELSE {}

\* new Date(`${birthDate}T${birthTime}`), a local date and time
BirthDateTime(birthDate, birthTime) ==
    WallClock(birthDate[1], birthDate[2], birthDate[3],
              ParseTime(birthTime).hour, ParseTime(birthTime).minute)

\* renderStep2: the birthDate prop handed to TimezoneSelector; new Date(), the
\* time of rendering, stands in when a field is empty, which validateStep(1)
\* excludes at the second step
SelectorBirthDate(w, renderTime) ==
    IF w.birthDate # <<>> /\ w.birthTime # <<>>
    THEN BirthDateTime(w.birthDate, w.birthTime) ELSE renderTime

\* TimezoneSelector.handleLocationSelect, then the wizard's handleLocationSelect
\* it calls through onTimeCalibrated
HandleLocationSelectOf(w, location, renderTime) ==
    LET calibration == GetCalibratedBirthTime(SelectorBirthDate(w, renderTime), location)
    IN  [w EXCEPT !.location = calibration.location,
                  !.timeCalibration = calibration,
                  !.errors = {}]

\* the argument handleFinalSubmit hands to onSubmit
SubmittedInfo(w) ==
    [birthDate |-> BirthDateTime(w.birthDate, w.birthTime),
     birthTime |-> w.birthTime,
     gender |-> w.gender,
     calendarType |-> w.calendarType,
     location |-> w.location,
     calibratedTime |-> w.timeCalibration.calibratedTime,
     timeCalibration |-> w.timeCalibration]

----------------------------------------------------------------------------
(* app/api/health/route.ts: GET with its module-level cache *)

CACHE_DURATION == 30000

\* cachedHealth = null
NoHealth == [startedAt |-> -1]

NoResponse == [status |-> 0, cached |-> FALSE, timestamp |-> 0, health |-> NoHealth]

\* a GET request not yet received
IdleRequest == [pc |-> "idle", now |-> 0, response |-> NoResponse]

----------------------------------------------------------------------------
(* fortune-interpreter.ts: generateBasicInterpretation.  The texts are      *)
(* written in pinyin; the element names the texts are selected by are       *)
(* 木 = mu, 火 = huo, 土 = tu, 金 = jin, 水 = shui                            *)

\* the keys of baziData.fiveElements in the order of Object.entries
ElementKeys == <<"wood", "fire", "earth", "metal", "water">>

Includes(array, value) == \E i \in 1..Len(array) : array[i] = value

\* Object.values(elements).reduce((sum, val) => sum + val, 0)
ElementTotal(elements) ==
    elements["wood"] + elements["fire"] + elements["earth"] + elements["metal"]
        + elements["water"]

\* value > avg * 1.2 with avg = total / 5
StrongElements(elements) ==
    SelectSeq(ElementKeys, LAMBDA e : elements[e] * 25 > ElementTotal(elements) * 6)

\* value < avg * 0.8
WeakElements(elements) ==
    SelectSeq(ElementKeys, LAMBDA e : elements[e] * 25 < ElementTotal(elements) * 4)

\* value === 0
MissingElements(elements) == SelectSeq(ElementKeys, LAMBDA e : elements[e] = 0)

dayMasterTraits ==
    [d \in Stems |->
        CASE d = "jia" ->
               [traits |-> <<"duli", "jinqu", "lingdaoli", "zhengyigan">>,
                strengths |-> <<"youjueduanli", "yongyuchuangxin", "leyuzhuren">>,
                challenges |-> <<"youshiguoyuguzhi", "rongyichongdong">>]
          [] d = "yi" ->
               [traits |-> <<"wenhe", "xini", "shanjierenyi", "shiyingliqiang">>,
                strengths |-> <<"shanyuxietiao", "younaixin", "yishutianfu">>,
                challenges |-> <<"rongyiyouyubujue", "guoyumingan">>]
          [] d = "bing" ->
               [traits |-> <<"reqing", "kailang", "chuangzaoli", "biaoxianyu">>,
                strengths |-> <<"jijileguan", "ganranliqiang", "lingdaocaineng">>,
                challenges |-> <<"qingxuqifuda", "rongyijizao">>]
          [] d = "ding" ->
               [traits |-> <<"congming", "minrui", "dongchali", "chuangzaoli">>,
                strengths |-> <<"siweiminjie", "shanyufenxi", "youyuanjian">>,
                challenges |-> <<"guoyumingan", "rongyijiaolv">>]
          [] d = "wu" ->
               [traits |-> <<"wenzhong", "kekao", "zerengan", "naixin">>,
                strengths |-> <<"tashikengan", "youyili", "zhidexinlai">>,
                challenges |-> <<"youshiguoyubaoshou", "bugoulinghuo">>]
          [] d = "ji" ->
               [traits |-> <<"wenhe", "baorong", "xietiaoli", "naixin">>,
                strengths |-> <<"shanyuqingting", "youtongqingxin", "shiyingliqiang">>,
                challenges |-> <<"rongyiyourouguaduan", "quefazhujian">>]
          [] d = "geng" ->
               [traits |-> <<"guoduan", "yonggan", "zhengyigan", "lingdaoli">>,
                strengths |-> <<"youpoli", "ganyudandang", "zhixingliqiang">>,
                challenges |-> <<"guoyugangqiang", "bugouyuanrong">>]
          [] d = "xin" ->
               [traits |-> <<"jingzhi", "mingan", "shenmeili", "zhuiqiuwanmei">>,
                strengths |-> <<"zhuzhongxijie", "youpinwei", "zhuiqiuwanmei">>,
                challenges |-> <<"guoyutiaoti", "rongyijiaolv">>]
          [] d = "ren" ->
               [traits |-> <<"zhihui", "baorong", "shiyingli", "liudongxing">>,
                strengths |-> <<"siweihuoyue", "shanyubiantong", "baorongxingqiang">>,
                challenges |-> <<"qingxuduobian", "quefadingli">>]
          [] d = "gui" ->
               [traits |-> <<"zhihui", "zhijue", "mingan", "chuangzaoli">>,
                strengths |-> <<"dongchaliqiang", "youchuangzaoli", "zhijueminrui">>,
                challenges |-> <<"guoyumingan", "rongyiduolv">>]]

\* the traits of a day master the table does not list
DefaultTraits ==
    [traits |-> <<"pingheng", "zhongyong">>,
     strengths |-> <<"shiyingliqiang">>,
     challenges |-> <<"tesebumingxian">>]

\* the array with the texts pushed whose condition holds, in the order of
\* the if statements
PushAll(array, conditions, texts) ==
    LET Step(acc, i) == IF conditions[i] THEN Append(acc, texts[i]) ELSE acc
    IN  Step(Step(Step(Step(Step(array, 1), 2), 3), 4), 5)

\* generatePersonalityTraits with every element text selected by the names
\* given, as strong.includes(name) and weak.includes(name)
PersonalityTraitsBy(names, dayMaster, strong, weak) ==
    LET dayMasterInfo == IF dayMaster \in DOMAIN dayMasterTraits
                         THEN dayMasterTraits[dayMaster] ELSE DefaultTraits
        isStrong == [i \in 1..5 |-> Includes(strong, names[i])]
        isWeak == [i \in 1..5 |-> Includes(weak, names[i])]
    IN  [mainTraits |-> PushAll(dayMasterInfo.traits, isStrong,
                <<"youzhujian", "reqingkailang", "wenzhongkekao", "guoduanjuejue",
                  "zhihuilinghuo">>),
         strengths |-> PushAll(dayMasterInfo.strengths, isStrong,
                <<"youlingdaocaineng", "youganranli", "zhidexinlai", "zhixingliqiang",
                  "shiyingliqiang">>),
         challenges |-> PushAll(dayMasterInfo.challenges, isWeak,
                <<"rongyiquefazixin", "quefajiqing", "quefaanquangan", "yourouguaduan",
                  "siweiguhua">>)]

\* generatePersonalityTraits(dayMaster, elements, strong, weak); the sentence
\* keyCharacteristics is left out
GeneratePersonalityTraits(dayMaster, strong, weak) ==
    PersonalityTraitsBy(<<"mu", "huo", "tu", "jin", "shui">>, dayMaster, strong, weak)

Max(S) == CHOOSE x \in S : \A y \in S : y <= x
Min(S) == CHOOSE x \in S : \A y \in S : x <= y

\* generateFortuneOverview(elements, strong, weak); balanceScore is the
\* largest tally over the smallest positive one
GenerateFortuneOverview(elements, strong, weak) ==
    LET values == {elements[e] : e \in DOMAIN elements}
        largest == Max(values)
        smallest == Min({v \in values : v > 0})
        strongPoint == IF Len(strong) > 0
                       THEN <<[text |-> "guowang", elements |-> strong]>> ELSE <<>>
        weakPoint == IF Len(weak) > 0
                     THEN <<[text |-> "pianruo", elements |-> weak]>> ELSE <<>>
    IN  [overallTrend |-> IF largest < 2 * smallest THEN "pingheng"
                          ELSE IF largest < 4 * smallest THEN "pianpo"
                          ELSE "shiheng",
         currentPhase |-> "chengzhang",
         keyPoints |-> strongPoint \o weakPoint
                        \o <<[text |-> "xintai", elements |-> <<>>],
                             [text |-> "jiankang", elements |-> <<>>]>>,
         warnings |-> <<"jiduan", "goutong">>]

\* generateBasicInterpretation(baziData); lifeStages is four fixed sentences
GenerateBasicInterpretation(baziData) ==
    LET dayMaster == baziData.dayMaster
        elements == baziData.fiveElements
        strongElements == StrongElements(elements)
        weakElements == WeakElements(elements)
    IN  [basicInfo |-> [fourPillars |-> <<baziData.yearPillar, baziData.monthPillar,
                                          baziData.dayPillar, baziData.hourPillar>>,
                        fiveElements |-> elements,
                        dayMaster |-> dayMaster,
                        missingElements |-> MissingElements(elements),
                        strongElements |-> strongElements,
                        weakElements |-> weakElements],
         personality |-> GeneratePersonalityTraits(dayMaster, strongElements, weakElements),
         fortuneOverview |-> GenerateFortuneOverview(elements, strongElements, weakElements),
         lifeStages |-> [childhood |-> "pingwen", youth |-> "gexing",
                         middleAge |-> "shiye", oldAge |-> "anwen"]]

----------------------------------------------------------------------------
(* Invocations in flight: the module tables and the singleton's tables are *)
(* shared by all of them, every other value lives in the invocation's frame *)

ModuleTables ==
    [tianGan |-> tianGan, diZhi |-> diZhi, wuXing |-> wuXing,
     yearGanToMonthGan |-> yearGanToMonthGan, dayGanToHourGan |-> dayGanToHourGan,
     timeToHour |-> timeToHour, HIDDEN_STEMS |-> HIDDEN_STEMS, TEN_GODS |-> TEN_GODS]

\* the bug of consuming the hidden stems with shift(): the table is left
\* without the hidden stems of the chart's branches
TallyStepConsuming(hidden, pillars) ==
    [result |-> CalculateFiveElementsWith(hidden, pillars),
     hidden |-> [b \in DOMAIN hidden |->
                    IF \E i \in 1..Len(pillars) : pillars[i].branch = b
                    THEN <<>> ELSE hidden[b]]]

\* calculateFiveElements on the shared table: what it returns and what it
\* leaves in the table (forEach reads the hidden stems and writes nothing)
TallyStep(hidden, pillars) ==
    [result |-> CalculateFiveElementsWith(hidden, pillars),
     hidden |-> hidden]

IdleFrame == [pc |-> "idle"]

\* the frame of a calculate invocation once its pillars are computed
PillarsFrame(request, chart) ==
    IF chart.threw
    THEN [pc |-> "done", request |-> request, threw |-> TRUE, message |-> chart.message]
    ELSE [pc |-> "tally", request |-> request, threw |-> FALSE,
          pillars |-> <<chart.yearPillar, chart.monthPillar,
                        chart.dayPillar, chart.hourPillar>>,
          birthInfo |-> chart.birthInfo]

\* what the finished invocation hands to its caller
FrameResult(frame) ==
    IF frame.threw
    THEN [threw |-> TRUE, message |-> frame.message]
    ELSE IF frame.request.fn = "calculate"
    THEN [threw |-> FALSE,
          yearPillar |-> frame.pillars[1],
          monthPillar |-> frame.pillars[2],
          dayPillar |-> frame.pillars[3],
          hourPillar |-> frame.pillars[4],
          fiveElements |-> frame.fiveElements,
          tenGods |-> frame.tenGods,
          dayMaster |-> frame.pillars[3].stem,
          birthInfo |-> frame.birthInfo]
    ELSE [threw |-> FALSE,
          yearPillar |-> frame.pillars[1],
          monthPillar |-> frame.pillars[2],
          dayPillar |-> frame.pillars[3],
          hourPillar |-> frame.pillars[4],
          fiveElements |-> frame.fiveElements,
          tenGods |-> frame.tenGods,
          dayMaster |-> frame.pillars[3].stem]

----------------------------------------------------------------------------
(* Inputs *)

YearPillarYears == (RefYear - YearSpan)..(RefYear + YearSpan)
DayPillarYears == (EpochYear - DaySpan)..(EpochYear + DaySpan) \cup {1990, 2000, 2024}
MonthPillarYears == 2017..2020
MonthPillarDays == {1, 3, 4, 5, 15, 28}

\* hours handed to calculateHourPillar: 0..23 and HourSlack hours on each side
HourSlack == 3
HourInputs == (0 - HourSlack)..(23 + HourSlack)
MinuteInputs == {0, 59}

\* CHINESE_CITIES entries, the longitude 87.6 of a far-west UTC+8 place, the
\* UTC+8 meridian itself, and places of other UTC offsets
Locations ==
    { [name |-> "Beijing", longitude |-> 1164074, timezone |-> 8],
      [name |-> "Urumqi", longitude |-> 876168, timezone |-> 8],
      [name |-> "FarWest", longitude |-> 876000, timezone |-> 8],
      [name |-> "Meridian120", longitude |-> 1200000, timezone |-> 8],
      [name |-> "Greenwich", longitude |-> 0, timezone |-> 0],
      [name |-> "NewYork", longitude |-> -740060, timezone |-> -5],
      [name |-> "Kiritimati", longitude |-> -1574000, timezone |-> 14] }

TimeStrings ==
    { <<"0", "0", ":", "3", "0">>,
      <<"0", "6", ":", "5", "0">>,
      <<"1", "4", ":", "3", "0">>,
      <<"2", "2", ":", "5", "9">>,
      <<"2", "3", ":", "0", "0">>,
      <<"2", "3", ":", "3", "0">>,
      <<"2", "4", ":", "0", "0">>,
      <<"2", "5", ":", "0", "0">>,
      <<"-", "1", ":", "0", "0">> }

\* dates handed to calculate and to calculateTrueSolarTime
CivilDates ==
    { <<1990, 5, 15>>, <<1900, 1, 1>>, <<2019, 1, 15>>, <<2018, 12, 15>>,
      <<2024, 2, 29>>, <<1999, 12, 31>>, <<2000, 1, 1>>, <<2021, 2, 3>> }
SolarDates ==
    { <<1990, 5, 15>>, <<1999, 12, 31>>, <<2000, 1, 1>>, <<2000, 1, 31>>, <<2000, 3, 1>> }

\* charts handed to calculateFiveElements and calculateTenGods: one pillar is
\* any stem with any branch at any of the four places, the other three are
\* drawn from pillars whose branches hide one, two and three stems
AllPillars == {[stem |-> st, branch |-> br] : st \in Stems, br \in Branches}
FixedPillars ==
    { [stem |-> "jia", branch |-> "zi"],
      [stem |-> "bing", branch |-> "wuzhi"],
      [stem |-> "wu", branch |-> "chen"] }
Charts ==
    {[i \in 1..4 |-> IF i = pos THEN free ELSE fixed[i]] :
        pos \in 1..4, free \in AllPillars, fixed \in [1..4 -> FixedPillars]}


\* years handed to calculateYearPillar of bazi-calculator.ts: the range
\* validateBirthInfo accepts
BirthYears == 1900..2100

\* births handed to calculateBazi: the date, the "HH:mm" time and whether the
\* birthDate object carries the time of birth or local midnight
BirthDates == { <<1990, 5, 15>>, <<1983, 6, 1>>, <<2000, 1, 1>>, <<1999, 12, 31>> }
BirthTimes ==
    { <<"0", "0", ":", "3", "0">>,
      <<"0", "6", ":", "5", "0">>,
      <<"1", "4", ":", "3", "0">>,
      <<"2", "3", ":", "3", "0">> }
\* minutes getCalibratedBirthTime adds: zone offset 480 with the solar
\* adjustment of Beijing (-14) and Urumqi (-130), and smaller shifts
TotalOffsets == {-120, 0, 16, 350, 466, 480}

\* the number of invocations in flight at once
MaxCalls == 2
Invocations == 1..MaxCalls

\* the requests of the concurrent callers
Requests ==
    { [fn |-> "calculate", year |-> 1990, month |-> 5, day |-> 15,
       timeStr |-> <<"1", "4", ":", "3", "0">>,
       location |-> [name |-> "Urumqi", longitude |-> 876168, timezone |-> 8],
       useTrueSolarTime |-> TRUE, equationOfTime |-> 0],
      [fn |-> "calculate", year |-> 2000, month |-> 1, day |-> 1,
       timeStr |-> <<"2", "3", ":", "3", "0">>,
       location |-> [name |-> "Beijing", longitude |-> 1164074, timezone |-> 8],
       useTrueSolarTime |-> FALSE, equationOfTime |-> 0],
      [fn |-> "calculateBazi",
       birthInfo |-> [birthDate |-> WallClock(1990, 5, 15, 14, 30),
                      birthTime |-> <<"1", "4", ":", "3", "0">>]],
      [fn |-> "calculateBazi",
       birthInfo |-> [birthDate |-> WallClock(2000, 1, 1, 6, 50),
                      birthTime |-> <<"0", "6", ":", "5", "0">>,
                      calibratedDate |-> WallClock(2000, 1, 1, 6, 50) + 350]],
      [fn |-> "calculateBazi",
       birthInfo |-> [birthDate |-> WallClock(1983, 6, 1, 0, 30),
                      birthTime |-> <<"0", "0", ":", "3", "0">>]] }

\* what the user types into the wizard: dates, times, gender and calendar
WizardDates == { <<1983, 6, 1>>, <<2000, 1, 1>> }
WizardTimes == { <<"0", "6", ":", "5", "0">>, <<"1", "4", ":", "3", "0">> }
Genders == {"male", "female"}
CalendarTypes == {"lunar", "solar"}

\* the clock advances in steps of half the cache duration, MaxTicks times at
\* most; MaxRequests GET requests are in flight at once
ClockStep == CACHE_DURATION \div 2
MaxTicks == 4
MaxRequests == 2
RequestIds == 1..MaxRequests

\* the time the wizard is rendered at
RenderTime == WallClock(2000, 1, 1, 0, 0)

----------------------------------------------------------------------------
(* The state machine: a caller invokes one entry point on any input, takes  *)
(* the result, and invokes the next                                         *)

Init ==
    /\ runtimeZone \in LocalZones
    /\ op = "idle"
    /\ args = <<>>
    /\ ret = <<>>
    /\ tables = ModuleTables
    /\ calls = [i \in Invocations |-> IdleFrame]
    /\ wizard = InitialWizard
    /\ submitted = <<>>
    /\ cachedHealth = NoHealth
    /\ lastCheckTime = 0
    /\ dateNow = 0
    /\ requests = [i \in RequestIds |-> IdleRequest]

YearPillar ==
    /\ op = "idle"
    /\ \E year \in YearPillarYears, month \in 1..12 :
        \E day \in 1..DaysInMonth(year, month) :
            /\ op' = "calculateYearPillar"
            /\ args' = [year |-> year, month |-> month, day |-> day]
            /\ ret' = CalculateYearPillar(year, month, day)
            /\ UNCHANGED <<runtimeZone, tables, calls, wizardVars, healthVars>>

MonthPillar ==
    /\ op = "idle"
    /\ \E year \in MonthPillarYears, month \in 1..12, day \in MonthPillarDays,
       yearStem \in Stems :
        /\ op' = "calculateMonthPillar"
        /\ args' = [year |-> year, month |-> month, day |-> day, yearStem |-> yearStem]
        /\ ret' = CalculateMonthPillar(year, month, day, yearStem)
        /\ UNCHANGED <<runtimeZone, tables, calls, wizardVars, healthVars>>

DayPillar ==
    /\ op = "idle"
    /\ \E year \in DayPillarYears, month \in 1..12 :
        \E day \in 1..DaysInMonth(year, month) :
            /\ op' = "calculateDayPillar"
            /\ args' = [year |-> year, month |-> month, day |-> day]
            /\ ret' = CalculateDayPillar(runtimeZone, year, month, day)
            /\ UNCHANGED <<runtimeZone, tables, calls, wizardVars, healthVars>>

HourPillar ==
    /\ op = "idle"
    /\ \E dayStem \in Stems, hour \in HourInputs, minute \in MinuteInputs :
        /\ op' = "calculateHourPillar"
        /\ args' = [dayStem |-> dayStem, hour |-> hour, minute |-> minute]
        /\ ret' = CalculateHourPillar(dayStem, hour, minute)
        /\ UNCHANGED <<runtimeZone, tables, calls, wizardVars, healthVars>>

BaziHourPillar ==
    /\ op = "idle"
    /\ \E dayStem \in Stems, hour \in 0..23 :
        /\ op' = "bazi.calculateHourPillar"
        /\ args' = [dayStem |-> dayStem, hour |-> hour]
        /\ ret' = BaziCalculateHourPillar(dayStem, hour)
        /\ UNCHANGED <<runtimeZone, tables, calls, wizardVars, healthVars>>

TrueSolarTime ==
    /\ op = "idle"
    /\ \E date \in SolarDates, hour \in 0..23, minute \in MinuteInputs,
       location \in Locations, eot \in EquationOfTime :
        /\ op' = "calculateTrueSolarTime"
        /\ args' = [year |-> date[1], month |-> date[2], day |-> date[3],
                    hour |-> hour, minute |-> minute, location |-> location]
        /\ ret' = CalculateTrueSolarTime(date[1], date[2], date[3], hour, minute,
                                         location, eot)
        /\ UNCHANGED <<runtimeZone, tables, calls, wizardVars, healthVars>>

CalculateChart ==
    /\ op = "idle"
    /\ \E date \in CivilDates, timeStr \in TimeStrings, location \in Locations,
       useTrueSolarTime \in BOOLEAN, eot \in EquationOfTime :
        /\ op' = "calculate"
        /\ args' = [year |-> date[1], month |-> date[2], day |-> date[3],
                    timeStr |-> timeStr, location |-> location,
                    useTrueSolarTime |-> useTrueSolarTime, equationOfTime |-> eot]
        /\ ret' = Calculate(runtimeZone, date[1], date[2], date[3], timeStr, location,
                            useTrueSolarTime, eot)
        /\ UNCHANGED <<runtimeZone, tables, calls, wizardVars, healthVars>>

FiveElements ==
    /\ op = "idle"
    /\ \E pillars \in Charts :
        /\ op' = "calculateFiveElements"
        /\ args' = [pillars |-> pillars]
        /\ ret' = BaziCalculateFiveElements(pillars)
        /\ UNCHANGED <<runtimeZone, tables, calls, wizardVars, healthVars>>

\* calculateBazi hands calculateTenGods the stem of the day pillar
TenGods ==
    /\ op = "idle"
    /\ \E pillars \in Charts :
        /\ op' = "calculateTenGods"
        /\ args' = [dayMaster |-> pillars[3].stem, pillars |-> pillars]
        /\ ret' = BaziCalculateTenGods(pillars[3].stem, pillars)
        /\ UNCHANGED <<runtimeZone, tables, calls, wizardVars, healthVars>>

BaziYearPillar ==
    /\ op = "idle"
    /\ \E year \in BirthYears :
        /\ op' = "bazi.calculateYearPillar"
        /\ args' = [year |-> year]
        /\ ret' = BaziCalculateYearPillar(year)
        /\ UNCHANGED <<runtimeZone, tables, calls, wizardVars, healthVars>>

\* calculateBazi without a calibrated date (the page's submit handler)
Bazi ==
    /\ op = "idle"
    /\ \E date \in BirthDates, birthTime \in BirthTimes, withTime \in BOOLEAN :
        LET clock == ParseTime(birthTime)
            birthDate == IF withTime
                         THEN WallClock(date[1], date[2], date[3], clock.hour, clock.minute)
                         ELSE WallClock(date[1], date[2], date[3], 0, 0)
            birthInfo == [birthDate |-> birthDate, birthTime |-> birthTime]
        IN  /\ op' = "calculateBazi"
            /\ args' = birthInfo
            /\ ret' = CalculateBazi(runtimeZone, birthInfo)
            /\ UNCHANGED <<runtimeZone, tables, calls, wizardVars, healthVars>>

BaziWithTimezone ==
    /\ op = "idle"
    /\ \E date \in BirthDates, birthTime \in BirthTimes, withTime \in BOOLEAN,
          totalOffset \in TotalOffsets :
        LET clock == ParseTime(birthTime)
            birthDate == IF withTime
                         THEN WallClock(date[1], date[2], date[3], clock.hour, clock.minute)
                         ELSE WallClock(date[1], date[2], date[3], 0, 0)
        IN  /\ op' = "calculateBaziWithTimezone"
            /\ args' = [birthDate |-> birthDate, birthTime |-> birthTime,
                        calibratedDate |-> CalibratedTime(birthDate, totalOffset)]
            /\ ret' = CalculateBaziWithTimezone(runtimeZone, birthDate, birthTime,
                                                totalOffset)
            /\ UNCHANGED <<runtimeZone, tables, calls, wizardVars, healthVars>>

\* calculateTenGods of the complete calculator, called on its own
CompleteTenGods ==
    /\ op = "idle"
    /\ \E dayMaster \in Stems \cup {Undefined} :
        /\ op' = "complete.calculateTenGods"
        /\ args' = [dayMaster |-> dayMaster]
        /\ ret' = CalculateTenGods(dayMaster)
        /\ UNCHANGED <<runtimeZone, tables, calls, wizardVars, healthVars>>

\* generateBasicInterpretation on the result calculateBazi returned
BasicInterpretation ==
    /\ op = "idle"
    /\ \E pillars \in Charts :
        /\ ~BaziOfPillars(pillars).threw
        /\ op' = "generateBasicInterpretation"
        /\ args' = [baziData |-> BaziOfPillars(pillars)]
        /\ ret' = GenerateBasicInterpretation(BaziOfPillars(pillars))
        /\ UNCHANGED <<runtimeZone, tables, calls, wizardVars, healthVars>>

\* the caller has consumed the result
Return ==
    /\ op # "idle"
    /\ op' = "idle"
    /\ args' = <<>>
    /\ ret' = <<>>
    /\ UNCHANGED <<runtimeZone, tables, calls, wizardVars, healthVars>>

Next ==
    \/ YearPillar
    \/ MonthPillar
    \/ DayPillar
    \/ HourPillar
    \/ BaziHourPillar
    \/ TrueSolarTime
    \/ CalculateChart
    \/ FiveElements
    \/ TenGods
    \/ BaziYearPillar
    \/ Bazi
    \/ BaziWithTimezone
    \/ CompleteTenGods
    \/ BasicInterpretation
    \/ Return

Spec == Init /\ [][Next]_vars

----------------------------------------------------------------------------
(* Concurrent callers: each invocation advances step by step, interleaved  *)
(* with the steps of the others                                            *)

Invoke(i) ==
    /\ calls[i].pc = "idle"
    /\ \E request \in Requests :
        calls' = [calls EXCEPT ![i] = [pc |-> "pillars", request |-> request]]
    /\ UNCHANGED <<runtimeZone, op, args, ret, tables, wizardVars, healthVars>>

\* the four pillars: calculate lines 305-333, calculateBazi lines 232-246
ComputePillars(i) ==
    /\ calls[i].pc = "pillars"
    /\ LET request == calls[i].request
       IN  IF request.fn = "calculate"
           THEN calls' = [calls EXCEPT ![i] =
                    PillarsFrame(request,
                                 Calculate(runtimeZone, request.year, request.month,
                                           request.day, request.timeStr, request.location,
                                           request.useTrueSolarTime,
                                           request.equationOfTime))]
           ELSE calls' = [calls EXCEPT ![i] =
                        [pc |-> "tally", request |-> request, threw |-> FALSE,
                         pillars |-> BaziPillars(runtimeZone, request.birthInfo)]]
    /\ UNCHANGED <<runtimeZone, op, args, ret, tables, wizardVars, healthVars>>

\* the five-element tally: analyzeFiveElements, calculateFiveElements
Tally(i) ==
    /\ calls[i].pc = "tally"
    /\ LET frame == calls[i]
           step == TallyStep(tables.HIDDEN_STEMS, frame.pillars)
       IN  IF frame.request.fn = "calculate"
           THEN /\ calls' = [calls EXCEPT ![i] =
                       [pc |-> "tenGods", request |-> frame.request, threw |-> FALSE,
                        pillars |-> frame.pillars, birthInfo |-> frame.birthInfo,
                        fiveElements |->
                            AnalyzeFiveElements(
                                <<frame.pillars[1].stem, frame.pillars[1].branch,
                                  frame.pillars[2].stem, frame.pillars[2].branch,
                                  frame.pillars[3].stem, frame.pillars[3].branch,
                                  frame.pillars[4].stem, frame.pillars[4].branch>>)]]
                /\ UNCHANGED tables
           ELSE /\ calls' = [calls EXCEPT ![i] =
                       IF step.result.threw
                       THEN [pc |-> "done", request |-> frame.request, threw |-> TRUE,
                             message |-> step.result.message]
                       ELSE [pc |-> "tenGods", request |-> frame.request,
                             threw |-> FALSE, pillars |-> frame.pillars,
                             fiveElements |-> step.result.elements]]
                /\ tables' = [tables EXCEPT !.HIDDEN_STEMS = step.hidden]
    /\ UNCHANGED <<runtimeZone, op, args, ret, wizardVars, healthVars>>

\* the relationships: both calculateTenGods
Relationships(i) ==
    /\ calls[i].pc = "tenGods"
    /\ LET frame == calls[i]
           dayMaster == frame.pillars[3].stem
       IN  IF frame.request.fn = "calculate"
           THEN calls' = [calls EXCEPT ![i] =
                    [pc |-> "done", request |-> frame.request, threw |-> FALSE,
                     pillars |-> frame.pillars, birthInfo |-> frame.birthInfo,
                     fiveElements |-> frame.fiveElements,
                     tenGods |-> CalculateTenGods(dayMaster)]]
           ELSE LET tenGods == BaziCalculateTenGods(dayMaster, frame.pillars)
                IN  calls' = [calls EXCEPT ![i] =
                        IF tenGods.threw
                        THEN [pc |-> "done", request |-> frame.request, threw |-> TRUE,
                              message |-> tenGods.message]
                        ELSE [pc |-> "done", request |-> frame.request, threw |-> FALSE,
                              pillars |-> frame.pillars,
                              fiveElements |-> frame.fiveElements,
                              tenGods |-> tenGods.groups]]
    /\ UNCHANGED <<runtimeZone, op, args, ret, tables, wizardVars, healthVars>>

\* the caller has taken the result
Complete(i) ==
    /\ calls[i].pc = "done"
    /\ calls' = [calls EXCEPT ![i] = IdleFrame]
    /\ UNCHANGED <<runtimeZone, op, args, ret, tables, wizardVars, healthVars>>

NextConcurrent ==
    \/ \E i \in Invocations : Invoke(i)
    \/ \E i \in Invocations : ComputePillars(i)
    \/ \E i \in Invocations : Tally(i)
    \/ \E i \in Invocations : Relationships(i)
    \/ \E i \in Invocations : Complete(i)

SpecConcurrent == Init /\ [][NextConcurrent]_vars

----------------------------------------------------------------------------
(* The wizard: the user edits the fields of the first step, moves between  *)
(* the steps, picks a location at the second and submits at the third      *)

\* onChange of the date input, shown at step 1; the input can be cleared
SetBirthDate ==
    /\ wizard.step = 1
    /\ \E value \in WizardDates \cup {<<>>} :
        wizard' = [wizard EXCEPT !.birthDate = value, !.errors = @ \ {"birthDate"}]
    /\ UNCHANGED <<runtimeZone, op, args, ret, tables, calls, submitted, healthVars>>

\* onChange of the time input, shown at step 1
SetBirthTime ==
    /\ wizard.step = 1
    /\ \E value \in WizardTimes \cup {<<>>} :
        wizard' = [wizard EXCEPT !.birthTime = value, !.errors = @ \ {"birthTime"}]
    /\ UNCHANGED <<runtimeZone, op, args, ret, tables, calls, submitted, healthVars>>

\* onClick of a gender option, shown at step 1
SetGender ==
    /\ wizard.step = 1
    /\ \E value \in Genders :
        wizard' = [wizard EXCEPT !.gender = value, !.errors = @ \ {"gender"}]
    /\ UNCHANGED <<runtimeZone, op, args, ret, tables, calls, submitted, healthVars>>

\* onClick of a calendar option, shown at step 1
SetCalendarType ==
    /\ wizard.step = 1
    /\ \E value \in CalendarTypes :
        wizard' = [wizard EXCEPT !.calendarType = value, !.errors = @ \ {"calendarType"}]
    /\ UNCHANGED <<runtimeZone, op, args, ret, tables, calls, submitted, healthVars>>

\* handleNextStep; its button is shown while step < 3
HandleNextStep ==
    /\ wizard.step < 3
    /\ LET newErrors == ValidateStep(wizard, wizard.step)
       IN  wizard' = [wizard EXCEPT
                        !.errors = newErrors,
                        !.step = IF newErrors = {} THEN @ + 1 ELSE @]
    /\ UNCHANGED <<runtimeZone, op, args, ret, tables, calls, submitted, healthVars>>

\* handlePreviousStep; its button is shown while step > 1
HandlePreviousStep ==
    /\ wizard.step > 1
    /\ wizard' = [wizard EXCEPT !.step = @ - 1, !.errors = {}]
    /\ UNCHANGED <<runtimeZone, op, args, ret, tables, calls, submitted, healthVars>>

\* the user picks a search result in the TimezoneSelector, mounted at step 2
HandleLocationSelect ==
    /\ wizard.step = 2
    /\ \E location \in CHINA_CITIES :
        wizard' = HandleLocationSelectOf(wizard, location, RenderTime)
    /\ UNCHANGED <<runtimeZone, op, args, ret, tables, calls, submitted, healthVars>>

\* handleFinalSubmit; its button is shown at step 3
HandleFinalSubmit ==
    /\ wizard.step = 3
    /\ LET newErrors == ValidateStep(wizard, 2)
       IN  /\ wizard' = [wizard EXCEPT !.errors = newErrors]
           /\ submitted' =
                IF /\ newErrors = {}
                   /\ wizard.location # NullLocation
                   /\ wizard.timeCalibration # NullCalibration
                THEN <<SubmittedInfo(wizard)>>
                ELSE submitted
    /\ UNCHANGED <<runtimeZone, op, args, ret, tables, calls, healthVars>>

NextWizard ==
    \/ SetBirthDate
    \/ SetBirthTime
    \/ SetGender
    \/ SetCalendarType
    \/ HandleNextStep
    \/ HandlePreviousStep
    \/ HandleLocationSelect
    \/ HandleFinalSubmit

SpecWizard == Init /\ [][NextWizard]_vars

----------------------------------------------------------------------------
(* GET /api/health: the requests interleave at the await of the handler *)

\* time passes
Tick ==
    /\ dateNow < MaxTicks * ClockStep
    /\ dateNow' = dateNow + ClockStep
    /\ UNCHANGED <<runtimeZone, op, args, ret, tables, calls, wizardVars,
                   cachedHealth, lastCheckTime, requests>>

\* GET up to its return from the cache or to its await of quickHealthCheck()
Get(i) ==
    /\ requests[i].pc = "idle"
    /\ LET now == dateNow
       IN  requests' = [requests EXCEPT ![i] =
             IF cachedHealth # NoHealth /\ (now - lastCheckTime) < CACHE_DURATION
             THEN [pc |-> "responded", now |-> now,
                   response |-> [status |-> 200, cached |-> TRUE,
                                 timestamp |-> lastCheckTime, health |-> cachedHealth]]
             ELSE [pc |-> "checking", now |-> now, response |-> NoResponse]]
    /\ UNCHANGED <<runtimeZone, op, args, ret, tables, calls, wizardVars,
                   cachedHealth, lastCheckTime, dateNow>>

\* quickHealthCheck() resolves and GET runs on to its return; the result is
\* known by the time its request read the clock
CheckResolves(i) ==
    /\ requests[i].pc = "checking"
    /\ LET healthData == [startedAt |-> requests[i].now]
       IN  /\ cachedHealth' = healthData
           /\ lastCheckTime' = requests[i].now
           /\ requests' = [requests EXCEPT ![i] =
                 [@ EXCEPT !.pc = "responded",
                           !.response = [status |-> 200, cached |-> FALSE,
                                         timestamp |-> dateNow, health |-> healthData]]]
    /\ UNCHANGED <<runtimeZone, op, args, ret, tables, calls, wizardVars, dateNow>>

\* quickHealthCheck() rejects and the catch block answers with status 500
CheckRejects(i) ==
    /\ requests[i].pc = "checking"
    /\ requests' = [requests EXCEPT ![i] =
          [@ EXCEPT !.pc = "responded",
                    !.response = [status |-> 500, cached |-> FALSE,
                                  timestamp |-> dateNow, health |-> NoHealth]]]
    /\ UNCHANGED <<runtimeZone, op, args, ret, tables, calls, wizardVars,
                   cachedHealth, lastCheckTime, dateNow>>

\* the response has been sent
Deliver(i) ==
    /\ requests[i].pc = "responded"
    /\ requests' = [requests EXCEPT ![i] = IdleRequest]
    /\ UNCHANGED <<runtimeZone, op, args, ret, tables, calls, wizardVars,
                   cachedHealth, lastCheckTime, dateNow>>

NextHealth ==
    \/ Tick
    \/ \E i \in RequestIds : Get(i)
    \/ \E i \in RequestIds : CheckResolves(i)
    \/ \E i \in RequestIds : CheckRejects(i)
    \/ \E i \in RequestIds : Deliver(i)

SpecHealth == Init /\ [][NextHealth]_vars

----------------------------------------------------------------------------
(* Properties of CompleteBaZiCalculator and bazi-calculator *)

InVocabulary(pillar) == pillar.stem \in Stems /\ pillar.branch \in Branches

\* C1: the four pillar functions are total over valid civil input: for every
\* valid date and every hour 0..23, calculateYearPillar, calculateMonthPillar
\* (fed the year pillar's stem), calculateDayPillar and calculateHourPillar
\* (and so calculate) return a stem of the 10 stems and a branch of the 12
\* branches, never undefined.
C1_PillarsTotal ==
    /\ op = "calculateYearPillar" => InVocabulary(ret)
    /\ (op = "calculateMonthPillar"
        /\ args.yearStem = CalculateYearPillar(args.year, args.month, args.day).stem)
       => InVocabulary(ret)
    /\ op = "calculateDayPillar" => InVocabulary(ret)
    /\ (op = "calculateHourPillar" /\ args.hour \in 0..23)
       => (~ret.threw /\ InVocabulary(ret))
    /\ (op = "calculate" /\ ~args.useTrueSolarTime
        /\ ParseTime(args.timeStr).hour \in 0..23)
       => /\ ~ret.threw
          /\ InVocabulary(ret.yearPillar)
          /\ InVocabulary(ret.monthPillar)
          /\ InVocabulary(ret.dayPillar)
          /\ InVocabulary(ret.hourPillar)

\* C2: year-pillar periodicity: calculateYearPillar gives year Y the stem
\* index of Y+10, the branch index of Y+12 and the (stem, branch) pair of
\* Y+60, also for years before the reference year, and no shift of 1..59
\* years reproduces the pair.
C2_YearPeriodicity ==
    op = "calculateYearPillar" =>
        LET shifted(k) == CalculateYearPillar(args.year + k, args.month, args.day)
        IN  /\ ret.stemIndex = shifted(10).stemIndex
            /\ ret.branchIndex = shifted(12).branchIndex
            /\ ret.stem = shifted(60).stem
            /\ ret.branch = shifted(60).branch
            /\ \A k \in 1..59 :
                ~(shifted(k).stem = ret.stem /\ shifted(k).branch = ret.branch)

\* a year before the reference year, whose offset is negative
C2_Witness ==
    /\ op = "calculateYearPillar"
    /\ args.year = 0
    /\ args.month = 6
    /\ ret.stemIndex = 6
    /\ ret.branchIndex = 8

\* the place of sexagenary year Y in the cycle that has RefYear at jia-zi
SexagenaryYear(Y) ==
    [stemIndex |-> (Y - RefYear) % 10, branchIndex |-> (Y - RefYear) % 12]

\* C3: year cutover at the start of spring: calculateYearPillar(Y, m, d) is
\* the pillar of sexagenary year Y-1 when m = 1 or (m = 2 and d < 4), and of
\* sexagenary year Y on every other date; the pillars on the two sides of
\* February 4 of one year are exactly one cycle step apart.
C3_YearCutover ==
    op = "calculateYearPillar" =>
        LET early == args.month = 1 \/ (args.month = 2 /\ args.day < 4)
            expected == SexagenaryYear(IF early THEN args.year - 1 ELSE args.year)
            before == CalculateYearPillar(args.year, 2, 3)
            after == CalculateYearPillar(args.year, 2, 4)
        IN  /\ ret.stemIndex = expected.stemIndex
            /\ ret.branchIndex = expected.branchIndex
            /\ ret.stem = tianGan[expected.stemIndex + 1]
            /\ ret.branch = diZhi[expected.branchIndex + 1]
            /\ ret.stemIndex = (IF early THEN before ELSE after).stemIndex
            /\ after.stemIndex = (before.stemIndex + 1) % 10
            /\ after.branchIndex = (before.branchIndex + 1) % 12

\* February 3 still belongs to the previous sexagenary year
C3_Witness ==
    /\ op = "calculateYearPillar"
    /\ args.month = 2
    /\ args.day = 3
    /\ ret.ganZhiYear = args.year - 1
    /\ ret.stemIndex = SexagenaryYear(args.year - 1).stemIndex

\* the calendar day after (year, month, day)
NextDay(year, month, day) ==
    IF day < DaysInMonth(year, month) THEN <<year, month, day + 1>>
    ELSE IF month < 12 THEN <<year, month + 1, 1>>
    ELSE <<year + 1, 1, 1>>

\* C4: day-pillar continuity: for every calendar date D, before or after the
\* 1900-01-01 epoch, calculateDayPillar of the day after D has stem index
\* (stemIndex(D) + 1) mod 10 and branch index (branchIndex(D) + 1) mod 12.
C4_DayContinuity ==
    op = "calculateDayPillar" =>
        LET n == NextDay(args.year, args.month, args.day)
            next == CalculateDayPillar(runtimeZone, n[1], n[2], n[3])
        IN  /\ next.stemIndex = (ret.stemIndex + 1) % 10
            /\ next.branchIndex = (ret.branchIndex + 1) % 12

\* where the runtime's zone never changes its clocks, successive days do
\* advance by one step
DayContinuityWithoutClockChanges ==
    runtimeZone = "UTC" => C4_DayContinuity

\* C5: day-pillar anchor: calculateDayPillar(1900, 1, 1) returns the pair the
\* code documents for its epoch, geng-zi (stem index 6, branch index 0).
C5_DayAnchor ==
    (op = "calculateDayPillar" /\ args.year = EpochYear /\ args.month = 1 /\ args.day = 1)
        => /\ ret.stemIndex = 6
           /\ ret.branchIndex = 0
           /\ ret.stem = "geng"
           /\ ret.branch = "zi"

\* C6: the midnight-spanning hour branch is one unit: for every day stem the
\* hour pillar of hour 23 equals the hour pillar of hour 0, in
\* CompleteBaZiCalculator.calculateHourPillar and in bazi-calculator's
\* calculateHourPillar.
C6_MidnightBranchIsOneUnit ==
    /\ (op = "calculateHourPillar" /\ args.hour = 23)
       => LET atZero == CalculateHourPillar(args.dayStem, 0, args.minute)
          IN  ret.stem = atZero.stem /\ ret.branch = atZero.branch /\ ret.branch = "zi"
    /\ (op = "bazi.calculateHourPillar" /\ args.hour = 23)
       => LET atZero == BaziCalculateHourPillar(args.dayStem, 0)
          IN  ret.stem = atZero.stem /\ ret.branch = atZero.branch /\ ret.branch = "zi"

\* C7: hour-pillar boundary at 23:00: for every day stem the hour pillar of
\* hour 22 (branch hai, index 11) differs from that of hour 23 (branch zi,
\* index 0) in both implementations, and the minute never changes the pillar
\* of an hour.
C7_BoundaryAt23 ==
    /\ (op = "calculateHourPillar" /\ args.hour \in 0..23)
       => /\ ~ret.threw
          /\ \A m \in 0..59 : CalculateHourPillar(args.dayStem, args.hour, m) = ret
          /\ args.hour = 22
             => LET at23 == CalculateHourPillar(args.dayStem, 23, args.minute)
                IN  /\ ret.branch = "hai"
                    /\ IndexOf(diZhi, ret.branch) = 11
                    /\ ~at23.threw
                    /\ at23.branch = "zi"
                    /\ IndexOf(diZhi, at23.branch) = 0
                    /\ <<at23.stem, at23.branch>> # <<ret.stem, ret.branch>>
    /\ (op = "bazi.calculateHourPillar" /\ args.hour = 22)
       => LET at23 == BaziCalculateHourPillar(args.dayStem, 23)
          IN  /\ ret.branch = "hai"
              /\ at23.branch = "zi"
              /\ at23 # ret

\* 22:59 is still the hai hour
C7_Witness ==
    /\ op = "calculateHourPillar"
    /\ args.hour = 22
    /\ args.minute = 59
    /\ ~ret.threw
    /\ ret.branch = "hai"

\* C8: unmatched hours are rejected: for every integer hour outside 0..23
\* calculateHourPillar throws instead of returning a pillar, and calculate
\* propagates the error instead of returning a chart.
C8_UnmatchedHourThrows ==
    /\ (op = "calculateHourPillar" /\ args.hour \notin 0..23) => ret.threw
    /\ (op = "calculate" /\ ~args.useTrueSolarTime
        /\ ParseTime(args.timeStr).hour \notin 0..23) => ret.threw

\* C9: longitude correction: calculateTrueSolarTime returns longitudeCorrection
\* = (longitude - 15 * timezone) * 4 minutes; longitude 87.6 at UTC+8 gives
\* -129.6 minutes and a place on its standard meridian gives 0.
C9_LongitudeCorrection ==
    op = "calculateTrueSolarTime" =>
        /\ ret.longitudeCorrection
            = (args.location.longitude - 15 * args.location.timezone * Scale) * 4
        /\ args.location.name = "FarWest" => ret.longitudeCorrection = -1296000
        /\ args.location.name = "Meridian120" => ret.longitudeCorrection = 0

Abs(x) == IF x < 0 THEN 0 - x ELSE x

Pillars(chart) ==
    << <<chart.yearPillar.stem, chart.yearPillar.branch>>,
       <<chart.monthPillar.stem, chart.monthPillar.branch>>,
       <<chart.dayPillar.stem, chart.dayPillar.branch>>,
       <<chart.hourPillar.stem, chart.hourPillar.branch>> >>

\* C10: negligible correction at Beijing: for 1990-05-15 14:30 at longitude
\* 116.4074, timezone 8, and any equation of time of the physical range, the
\* total correction is below one minute in magnitude and calculate with
\* useTrueSolarTime = true returns the four pillars it returns with
\* useTrueSolarTime = false.
C10_BeijingNegligible ==
    (/\ op = "calculate"
     /\ args.useTrueSolarTime
     /\ <<args.year, args.month, args.day>> = <<1990, 5, 15>>
     /\ args.timeStr = <<"1", "4", ":", "3", "0">>
     /\ args.location.name = "Beijing")
    => LET solar == CalculateTrueSolarTime(1990, 5, 15, 14, 30, args.location,
                                           args.equationOfTime)
           civil == Calculate(runtimeZone, 1990, 5, 15, args.timeStr, args.location,
                              FALSE, args.equationOfTime)
       IN  /\ Abs(solar.totalCorrection) < Scale
           /\ ~ret.threw
           /\ Pillars(ret) = Pillars(civil)

----------------------------------------------------------------------------
(* Properties of the day rollover, the tallies and the relationship tables *)

\* the calendar day before (year, month, day)
PrevDay(year, month, day) ==
    IF day > 1 THEN <<year, month, day - 1>>
    ELSE IF month > 1 THEN <<year, month - 1, DaysInMonth(year, month - 1)>>
    ELSE <<year - 1, 12, 31>>

\* C11: calendar-correct day rollover: when input time plus total correction
\* crosses midnight, calculateTrueSolarTime returns the true next or previous
\* calendar date, carrying into month and year, and the returned day is
\* always between 1 and the length of the returned month.
C11_CalendarRollover ==
    op = "calculateTrueSolarTime" =>
        LET totalMinutes == (args.hour * 60 + args.minute) * Scale + ret.totalCorrection
            shift == totalMinutes \div (1440 * Scale)
            expected == IF shift = 1 THEN NextDay(args.year, args.month, args.day)
                        ELSE IF shift = -1 THEN PrevDay(args.year, args.month, args.day)
                        ELSE <<args.year, args.month, args.day>>
        IN  /\ shift \in {-1, 0, 1} => <<ret.year, ret.month, ret.day>> = expected
            /\ ret.day \in 1..DaysInMonth(ret.year, ret.month)

\* the number of hidden stems of the four branches of a chart
TotalHiddenStems(pillars) ==
    Len(HIDDEN_STEMS[pillars[1].branch]) + Len(HIDDEN_STEMS[pillars[2].branch])
    + Len(HIDDEN_STEMS[pillars[3].branch]) + Len(HIDDEN_STEMS[pillars[4].branch])

\* the sum of the five buckets, in halves
SumOfBuckets(elements) ==
    elements["wood"] + elements["fire"] + elements["earth"] + elements["metal"]
    + elements["water"]

ValidChart(pillars) ==
    \A i \in 1..4 : pillars[i].stem \in Stems /\ pillars[i].branch \in Branches

\* C12: for a chart of four pillars of the fixed vocabulary calculateFiveElements
\* returns five non-negative buckets, each a multiple of 0.5, whose sum is
\* 4 + 4 + 0.5 * H with H the number of hidden stems of the four branches;
\* each stem and each branch adds 1 to the bucket of its element and each
\* hidden stem adds 0.5 (buckets are counted in halves: 2 is 1.0)
C12_ElementTallyWeights ==
    (op = "calculateFiveElements" /\ ValidChart(args.pillars)) =>
        /\ ~ret.threw
        /\ \A e \in Elements :
            /\ ret.elements[e] \in Nat
            /\ ret.elements[e] = 2 * OwnCount(args.pillars, e)
                                  + HiddenCount(args.pillars, e)
        /\ SumOfBuckets(ret.elements) = 2 * (4 + 4) + TotalHiddenStems(args.pillars)

\* a chart with branches of three, one and two hidden stems: the earth bucket
\* of wu-chen, jia-zi, wu-chen, bing-wuzhi holds 2 stems, 2 branches, 3 hidden
C12_Witness ==
    /\ op = "calculateFiveElements"
    /\ args.pillars = << [stem |-> "wu", branch |-> "chen"], [stem |-> "jia", branch |-> "zi"],
                         [stem |-> "wu", branch |-> "chen"], [stem |-> "bing", branch |-> "wuzhi"] >>
    /\ ret.elements["earth"] = 11
    /\ SumOfBuckets(ret.elements) = 25

\* C13 as stated: the sum of the five buckets is 4.0 + 0.5 * H, with H the
\* number of hidden stems of the four branches (in halves: 8 + H)
C13_TallySumAsStated ==
    (op = "calculateFiveElements" /\ ValidChart(args.pillars)) =>
        /\ ~ret.threw
        /\ SumOfBuckets(ret.elements) = 2 * 4 + TotalHiddenStems(args.pillars)

\* C13, amended: the four stems and the four branches weigh 1.0 each, so the
\* sum of the five buckets is 8.0 + 0.5 * H (in halves: 16 + H)
C13_TallySum ==
    (op = "calculateFiveElements" /\ ValidChart(args.pillars)) =>
        /\ ~ret.threw
        /\ SumOfBuckets(ret.elements) = 2 * 8 + TotalHiddenStems(args.pillars)

\* four jia-zi pillars: 4 stems, 4 branches and 4 hidden gui, 8.0 + 2.0
C13_Witness ==
    /\ op = "calculateFiveElements"
    /\ \A i \in 1..4 : args.pillars[i] = [stem |-> "jia", branch |-> "zi"]
    /\ TotalHiddenStems(args.pillars) = 4
    /\ SumOfBuckets(ret.elements) = 20

\* C14: TEN_GODS is a total 10 x 10 function: for every day-master stem d and
\* every stem s the entry TEN_GODS[d][s] is defined and is one of the 10
\* labels, TEN_GODS[d][d] is bijian (peer), and every row uses every label
\* exactly once; so every stem that calculateTenGods classifies (a pillar's
\* stem, a hidden stem) carries the label of the table
C14_TableComplete ==
    /\ DOMAIN TEN_GODS = Stems
    /\ \A d \in Stems :
        /\ DOMAIN TEN_GODS[d] = Stems
        /\ \A st \in Stems : TEN_GODS[d][st] \in TenGodLabels
        /\ TEN_GODS[d][d] = "bijian"
        /\ \A l \in TenGodLabels : Cardinality({st \in Stems : TEN_GODS[d][st] = l}) = 1
    /\ (op = "calculateTenGods" /\ ~ret.threw) =>
            \A n \in DOMAIN ret.groups : \A j \in 1..Len(ret.groups[n]) :
                ret.groups[n][j].char \in Stems =>
                    /\ ret.groups[n][j].god \in TenGodLabels
                    /\ ret.groups[n][j].god = TEN_GODS[args.dayMaster][ret.groups[n][j].char]
                    /\ ret.groups[n][j].char = args.dayMaster => ret.groups[n][j].god = "bijian"

\* day master yi: the day stem is the peer and the year stem jia is jiecai
C14_Witness ==
    /\ op = "calculateTenGods"
    /\ args.dayMaster = "yi"
    /\ ~ret.threw
    /\ ret.groups["rizhu"][1] = [char |-> "yi", god |-> "bijian"]
    /\ ret.groups["nianzhu"][1] = [char |-> "jia", god |-> "jiecai"]

\* C15: for a chart of four valid pillars and its day-master stem, every entry
\* that calculateTenGods emits (each pillar's stem, each pillar's branch, each
\* hidden stem of the branch) carries one of the 10 relationship labels
C15_EveryEntryLabelled ==
    (op = "calculateTenGods" /\ ValidChart(args.pillars)) =>
        /\ ~ret.threw
        /\ \A n \in DOMAIN ret.groups : \A j \in 1..Len(ret.groups[n]) :
                ret.groups[n][j].god \in TenGodLabels

\* C16: with useTrueSolarTime = false, calculate computes the four pillars from
\* the civil year, month, day and hour as given, and the location has no
\* influence: calls that differ only in the location return the same pillars,
\* the same five-element tally and the same day master
C16_OptOutIgnoresLocation ==
    (op = "calculate" /\ ~args.useTrueSolarTime) =>
        LET parsed == ParseTime(args.timeStr)
            yearResult == CalculateYearPillar(args.year, args.month, args.day)
            monthResult == CalculateMonthPillar(args.year, args.month, args.day,
                                                yearResult.stem)
            dayResult == CalculateDayPillar(runtimeZone, args.year, args.month, args.day)
            hourResult == CalculateHourPillar(dayResult.stem, parsed.hour, parsed.minute)
        IN  /\ ret.threw = hourResult.threw
            /\ ~ret.threw =>
                /\ ret.yearPillar = yearResult
                /\ ret.monthPillar = monthResult
                /\ ret.dayPillar = dayResult
                /\ ret.hourPillar = hourResult
            /\ \A location \in Locations :
                LET other == Calculate(runtimeZone, args.year, args.month, args.day,
                                       args.timeStr, location, FALSE, args.equationOfTime)
                IN  /\ other.threw = ret.threw
                    /\ ~ret.threw =>
                        /\ Pillars(other) = Pillars(ret)
                        /\ other.fiveElements = ret.fiveElements
                        /\ other.dayMaster = ret.dayMaster

\* 14:30 at Urumqi without correction is the wei hour (the corrected time
\* would be hours later)
C16_Witness ==
    /\ op = "calculate"
    /\ ~args.useTrueSolarTime
    /\ args.location.name = "Urumqi"
    /\ args.timeStr = <<"1", "4", ":", "3", "0">>
    /\ ~ret.threw
    /\ ret.hourPillar.branch = "wei"
    /\ CalculateTrueSolarTime(args.year, args.month, args.day, 14, 30, args.location,
                              args.equationOfTime).hour # 14

\* C17: when calculateBazi receives a calibratedDate, all four pillars, the
\* hour pillar included, are derived from the calibrated instant: the hour
\* branch is the branch of the calibrated hour, not of the birthTime hour
C17_PillarsFromCalibratedInstant ==
    (op = "calculateBaziWithTimezone" /\ ~ret.threw) =>
        /\ ret.hourPillar.branch =
               JsIndex(EARTHLY_BRANCHES, ((GetHours(args.calibratedDate) + 1) \div 2) % 12)
        /\ <<ret.yearPillar, ret.monthPillar, ret.dayPillar, ret.hourPillar>>
               = PillarsOfInstant(runtimeZone, args.calibratedDate)

\* C18: for every year validateBirthInfo accepts (1900..2100) calculateYearPillar
\* of bazi-calculator returns one of the 10 stems and one of the 12 branches
C18_YearPillarInVocabulary ==
    (op = "bazi.calculateYearPillar" /\ args.year \in 1900..2100) =>
        /\ ret.stem \in Stems
        /\ ret.branch \in Branches

\* a pillar with a defined stem and branch whose indices have the same parity
LockStep(pillar) ==
    (pillar.stem \in Stems /\ pillar.branch \in Branches) =>
        IndexOf(tianGan, pillar.stem) % 2 = IndexOf(diZhi, pillar.branch) % 2

\* C20: whenever a pillar returned by CompleteBaZiCalculator (year, month, day
\* or hour, alone or within calculate) has a defined stem and branch, the stem
\* index and the branch index have the same parity: the pair is one of the 60
\* terms of the sexagenary cycle
C20_StemBranchLockStep ==
    /\ op \in {"calculateYearPillar", "calculateMonthPillar", "calculateDayPillar"} =>
            LockStep(ret)
    /\ (op = "calculateHourPillar" /\ ~ret.threw) => LockStep(ret)
    /\ (op = "calculate" /\ ~ret.threw) =>
            /\ LockStep(ret.yearPillar)
            /\ LockStep(ret.monthPillar)
            /\ LockStep(ret.dayPillar)
            /\ LockStep(ret.hourPillar)

\* month 3 of a jia year is ding-mao: indices 3 and 3
C20_Witness ==
    /\ op = "calculateMonthPillar"
    /\ args.yearStem = "jia"
    /\ args.month = 3
    /\ ret.stem = "ding"
    /\ ret.branch = "mao"

\* what the invocation returns when it runs alone
SequentialResult(zone, request) ==
    IF request.fn = "calculate"
    THEN Calculate(zone, request.year, request.month, request.day, request.timeStr,
                   request.location, request.useTrueSolarTime, request.equationOfTime)
    ELSE CalculateBazi(zone, request.birthInfo)

\* C19: for any interleaving of calculate / calculateBazi invocations on the
\* shared singleton and module tables, the result of each invocation depends
\* only on its own arguments (it is the result of running alone, so identical
\* arguments give identical results), and no invocation modifies the tables
C19_StatelessUnderInterleaving ==
    /\ tables = ModuleTables
    /\ \A i \in Invocations :
        calls[i].pc = "done" =>
            FrameResult(calls[i]) = SequentialResult(runtimeZone, calls[i].request)
    /\ \A i, j \in Invocations :
        (calls[i].pc = "done" /\ calls[j].pc = "done"
         /\ calls[i].request = calls[j].request) =>
            FrameResult(calls[i]) = FrameResult(calls[j])

\* two calculateBazi invocations of the same birth: one has finished while
\* the other is between its tally and its relationships
C19_Witness ==
    /\ calls[1].pc = "done"
    /\ calls[2].pc = "tenGods"
    /\ calls[1].request.fn = "calculateBazi"
    /\ calls[1].request = calls[2].request
    /\ ~calls[1].threw
    /\ calls[1].fiveElements = calls[2].fiveElements

(* Properties of the month and hour rules, the two implementations, the *)
(* wizard, the health cache and the interpretation                       *)

\* the branch index of the month by the fixed table
MonthBranchIndex(month, day) ==
    IF month = 1 THEN 1
    ELSE IF month = 2 THEN (IF day < 4 THEN 1 ELSE 2)
    ELSE IF month = 12 THEN 0 ELSE month

\* the forward distance of a branch from yin: 0 for yin, ..., 10 for zi, 11 for chou
DistanceFromYin(branchIndex) == (branchIndex + 10) % 12

\* C21: calculateMonthPillar returns the branch of the fixed table (Jan chou,
\* Feb chou before the 4th else yin, Mar..Nov the month number, Dec zi) and
\* the stem yearGanToMonthGan[yearStem] advanced by the branch's forward
\* distance from yin, modulo 10
C21_MonthPillarFiveTigers ==
    op = "calculateMonthPillar" =>
        LET branchIndex == MonthBranchIndex(args.month, args.day)
        IN  /\ ret.branch = JsIndex(diZhi, branchIndex)
            /\ ret.stem = JsIndex(tianGan, (yearGanToMonthGan[args.yearStem]
                                            + DistanceFromYin(branchIndex)) % 10)

\* the slots an hour falls in, the midnight slot (start 23, end 1) wrapping
SlotsOf(hour) ==
    {i \in 1..Len(timeToHour) :
        IF timeToHour[i].start > timeToHour[i].end
        THEN hour >= timeToHour[i].start \/ hour < timeToHour[i].end
        ELSE hour >= timeToHour[i].start /\ hour < timeToHour[i].end}

\* the stem five places after a stem
FiveApart(stem) == JsIndex(tianGan, (IndexOf(tianGan, stem) + 5) % 10)

\* C22: for every hour 0..23 and every day stem calculateHourPillar matches
\* exactly one of the 12 slots and does not throw; the branch index is
\* floor((h + 1) / 2) mod 12 and the stem index is (dayGanToHourGan[dayStem]
\* + branch index) mod 10; day stems five apart give the same hour pillar
C22_HourCoverage ==
    (op = "calculateHourPillar" /\ args.hour \in 0..23) =>
        LET branchIndex == ((args.hour + 1) \div 2) % 12
        IN  /\ ~ret.threw
            /\ Cardinality(SlotsOf(args.hour)) = 1
            /\ ret.hourName = timeToHour[CHOOSE i \in SlotsOf(args.hour) : TRUE].name
            /\ ret.branch = JsIndex(diZhi, branchIndex)
            /\ ret.stem = JsIndex(tianGan, (dayGanToHourGan[args.dayStem] + branchIndex) % 10)
            /\ CalculateHourPillar(FiveApart(args.dayStem), args.hour, args.minute) = ret

\* 13:59 on a ji day is xin-wei: base 0 plus branch index 7
C22_Witness ==
    /\ op = "calculateHourPillar"
    /\ args = [dayStem |-> "ji", hour |-> 13, minute |-> 59]
    /\ ~ret.threw
    /\ ret.stem = "xin"
    /\ ret.branch = "wei"

\* C23: for every day stem and every hour 0..23 calculateHourPillar of
\* bazi-calculator returns the stem (start(dayStem) + branch index) mod 10,
\* start being the five-rats table (jia/ji -> jia, yi/geng -> bing, ...), so a
\* jia day's zi hour is jia-zi; it returns the hour pillar that
\* CompleteBaZiCalculator.calculateHourPillar returns
C23_BaziHourFiveRats ==
    (op = "bazi.calculateHourPillar" /\ args.hour \in 0..23) =>
        LET branchIndex == ((args.hour + 1) \div 2) % 12
            complete == CalculateHourPillar(args.dayStem, args.hour, 0)
        IN  /\ ret.stem = JsIndex(tianGan, (dayGanToHourGan[args.dayStem] + branchIndex) % 10)
            /\ (args.dayStem = "jia" /\ args.hour = 0) => ret = [stem |-> "jia", branch |-> "zi"]
            /\ ret = [stem |-> complete.stem, branch |-> complete.branch]

\* C24: calculateTenGods returns exactly the four groups nianzhu, yuezhu,
\* rizhu, shizhu, filled from the pillars in input order; each group lists the
\* pillar's stem, then its branch, then the hidden stems of the branch in the
\* order of HIDDEN_STEMS, so its length is 2 + the number of hidden stems; the
\* first entry of the rizhu group is the day master labelled bijian
C24_GroupsByPillar ==
    (op = "calculateTenGods" /\ ValidChart(args.pillars)) =>
        /\ ~ret.threw
        /\ DOMAIN ret.groups = {"nianzhu", "yuezhu", "rizhu", "shizhu"}
        /\ \A i \in 1..4 :
            LET group == ret.groups[PillarNames[i]]
                hidden == HIDDEN_STEMS[args.pillars[i].branch]
            IN  /\ Len(group) = 2 + Len(hidden)
                /\ group[1].char = args.pillars[i].stem
                /\ group[2].char = args.pillars[i].branch
                /\ \A j \in 1..Len(hidden) : group[2 + j].char = hidden[j]
        /\ ret.groups["rizhu"][1] = [char |-> args.dayMaster, god |-> "bijian"]

\* an hour pillar geng-xu: its group is geng, xu, then wu, xin, ding
C24_Witness ==
    /\ op = "calculateTenGods"
    /\ args.pillars[4] = [stem |-> "geng", branch |-> "xu"]
    /\ ~ret.threw
    /\ Len(ret.groups["shizhu"]) = 5
    /\ ret.groups["shizhu"][3].char = "wu"
    /\ ret.groups["shizhu"][5].char = "ding"

\* C25: calculateTrueSolarTime returns a valid clock time equal to the input
\* plus the correction: hour in 0..23, minute in 0..59, second in 0..59, and
\* day shift * 1440 + hour * 60 + minute = floor(input minutes + totalCorrection),
\* with totalCorrection = equationOfTime + longitudeCorrection
C25_ValidClockTime ==
    op = "calculateTrueSolarTime" =>
        LET dayShift == ret.day - args.day
            inputMinutes == (args.hour * 60 + args.minute) * Scale
        IN  /\ ret.hour \in 0..23
            /\ ret.minute \in 0..59
            /\ ret.second \in 0..59
            /\ ret.totalCorrection = ret.equationOfTime + ret.longitudeCorrection
            /\ dayShift * 1440 + ret.hour * 60 + ret.minute
                 = (inputMinutes + ret.totalCorrection) \div Scale

\* the position 0..59 in the sexagenary cycle of the pillar with this stem
\* and branch
SexagenaryIndex(pillar) ==
    (6 * IndexOf(tianGan, pillar.stem) + 55 * IndexOf(diZhi, pillar.branch)) % 60

\* the pillar bazi-calculator derives for local midnight of the date
BaziDayPillarOfDate(zone, year, month, day) ==
    BaziCalculateDayPillar(zone, WallClock(year, month, day, 0, 0))

StemsLabelled(dayMaster, god) == {s \in Stems : TEN_GODS[dayMaster][s] = god}

\* C27: the two relationship tables are one mapping: TEN_GODS[d][s] = g in
\* bazi-calculator exactly when relationships[d][g] = s in the complete
\* calculator, so calculateTenGods(d) of the complete calculator returns for
\* each of the 10 labels a one-element list holding the stem bazi-calculator
\* classifies with that label
C27_TablesAgree ==
    (op = "complete.calculateTenGods" /\ args.dayMaster \in Stems) =>
        LET d == args.dayMaster
        IN  /\ \A s \in Stems : \A i \in 1..Len(TenGodNames) :
                (TEN_GODS[d][s] = TenGodNames[i]) <=> (relationships[d][i] = s)
            /\ DOMAIN ret = TenGodLabels
            /\ \A g \in TenGodLabels :
                /\ Len(ret[g]) = 1
                /\ StemsLabelled(d, g) = {ret[g][1]}

C27_Witness ==
    /\ op = "complete.calculateTenGods"
    /\ args.dayMaster = "xin"
    /\ ret["qisha"] = <<"ding">>
    /\ ret["zhengyin"] = <<"wu">>
    /\ TEN_GODS["xin"]["ding"] = "qisha"

\* C28: the wizard never submits a stale calibration: whenever onSubmit is
\* invoked, the submitted timeCalibration and calibratedTime are the result of
\* getCalibratedBirthTime applied to the submitted birthDate (date and time)
\* and the submitted location, and neither location nor timeCalibration is
\* unset
C28_NoStaleCalibration ==
    \A i \in 1..Len(submitted) :
        LET info == submitted[i]
            fresh == GetCalibratedBirthTime(info.birthDate, info.location)
        IN  /\ info.location # NullLocation
            /\ info.timeCalibration # NullCalibration
            /\ info.timeCalibration = fresh
            /\ info.calibratedTime = fresh.calibratedTime

\* C29: the health cache never goes backwards: over any interleaving of GET
\* requests lastCheckTime never decreases, cachedHealth is never replaced by
\* the result of a check that started earlier than the cached one,
\* cachedHealth and lastCheckTime always belong to the same check, and a
\* response is marked cached only when fewer than CACHE_DURATION ms lie
\* between lastCheckTime and the clock reading of its request
C29_CacheNeverGoesBack ==
    [][/\ lastCheckTime' >= lastCheckTime
       /\ cachedHealth'.startedAt >= cachedHealth.startedAt
       /\ cachedHealth' # NoHealth => cachedHealth'.startedAt = lastCheckTime'
       /\ \A i \in RequestIds :
            (requests[i].pc = "idle" /\ requests'[i].response.cached) =>
                /\ requests'[i].now - lastCheckTime < CACHE_DURATION
                /\ requests'[i].now - lastCheckTime >= 0]_vars

\* the texts generatePersonalityTraits holds for each element
ElementTexts ==
    [wood |-> [trait |-> "youzhujian", strength |-> "youlingdaocaineng",
               challenge |-> "rongyiquefazixin"],
     fire |-> [trait |-> "reqingkailang", strength |-> "youganranli",
               challenge |-> "quefajiqing"],
     earth |-> [trait |-> "wenzhongkekao", strength |-> "zhidexinlai",
                challenge |-> "quefaanquangan"],
     metal |-> [trait |-> "guoduanjuejue", strength |-> "zhixingliqiang",
                challenge |-> "yourouguaduan"],
     water |-> [trait |-> "zhihuilinghuo", strength |-> "shiyingliqiang",
                challenge |-> "siweiguhua"]]

\* C30: in generateBasicInterpretation an element is strong when its tally
\* exceeds 1.2 times the mean of the five tallies and weak when it is below 0.8
\* times the mean (strong and weak are disjoint, every element with tally 0 is
\* weak); for every strong element the personality holds that element's trait
\* and strength, and for every weak element that element's challenge
C30_StrengthDrivesPersonality ==
    op = "generateBasicInterpretation" =>
        LET elements == args.baziData.fiveElements
            total == ElementTotal(elements)
            strong == {e \in Elements : Includes(ret.basicInfo.strongElements, e)}
            weak == {e \in Elements : Includes(ret.basicInfo.weakElements, e)}
        IN  /\ strong = {e \in Elements : elements[e] * 5 * 10 > total * 12}
            /\ weak = {e \in Elements : elements[e] * 5 * 10 < total * 8}
            /\ strong \cap weak = {}
            /\ \A e \in Elements : elements[e] = 0 => e \in weak
            /\ \A e \in strong :
                /\ Includes(ret.personality.mainTraits, ElementTexts[e].trait)
                /\ Includes(ret.personality.strengths, ElementTexts[e].strength)
            /\ \A e \in weak :
                Includes(ret.personality.challenges, ElementTexts[e].challenge)

============================================================================
